---- MODULE Spec2Model ----
(***************************************************************************)
(* A model of the tool-schema JSON Schema engine: the keyword sort         *)
(* (src/keyword.ts), the parse and validate pipelines (src/resource.ts),   *)
(* the output unit with its checkpoints (output.ts) and the draft 2020-12  *)
(* core, applicator and unevaluated keywords.                              *)
(***************************************************************************)
EXTENDS Integers, Sequences, FiniteSets, TLC

VARIABLES
  keywords,    \* sortKeywords: the array being sorted in place
  iterations,  \* sortKeywords: passes of the while loop made so far
  changed,     \* sortKeywords: the loop flag
  sortState,   \* "running" | "returned" | "thrown" | "idle"
  input,       \* sortKeywords: the array as it was passed in
  ctx,         \* the SchemaContext: document, registry, last parse error
  reported,    \* the error of each parseSchema call so far ("" for none)
  inst,        \* the instance handed to Schema.validate
  run          \* what Schema.validate did: output, exception, trace

sortVars == <<keywords, iterations, changed, sortState, input>>

engineVars == <<ctx, reported, inst, run>>

vars == <<keywords, iterations, changed, sortState, input,
          ctx, reported, inst, run>>

(***************************************************************************)
(* Bounds of the model.                                                    *)
(***************************************************************************)
MaxKeywords == 3   \* longest keyword list handed to sortKeywords
MaxEdges == 3      \* most dependency/dependent entries in one list
MaxWide == 4       \* length of the longer keyword lists handed to sortKeywords
MaxWideEdges == 2  \* most dependency/dependent entries in a longer list
MaxKeys == 2       \* most keys of a generated schema object
MaxItems == 3      \* most elements of a generated array instance
MaxDepth == 7    \* schema frames the call stack holds before it overflows
MaxParses == 2     \* parseSchema calls on one context

(***************************************************************************)
(* Small helpers.                                                          *)
(***************************************************************************)
Min(S) == CHOOSE x \in S : \A y \in S : x <= y

Includes(seq, x) == \E k \in 1..Len(seq) : seq[k] = x

(***************************************************************************)
(* sortKeywords (src/keyword.ts).                                          *)
(* A keyword is [key, dependencies, dependents]; the two lists are         *)
(* sequences of names, read in order.  Names that start with "@" are       *)
(* virtual.                                                                *)
(***************************************************************************)
KeyNames == <<"A", "B", "C", "D", "E">>

VirtualNames == {"@V", "@unevaluated"}

\* A variant of IsVirtual that takes every name for the key of a keyword.
IsVirtualNever(name) == FALSE

\* dependency.startsWith("@")
IsVirtual(name) == name \in VirtualNames

NoMove == <<0, 0>>

\* The index of the first keyword whose key is `name`, or 0 (the code's -1).
IndexOfKey(kws, name) ==
  LET K == {j \in 1..Len(kws) : kws[j].key = name}
  IN IF K = {} THEN 0 ELSE Min(K)

\* A variant of DependencyMove that looks at virtual names only.
DependencyMoveVirtualOnly(kws, i, dependency) ==
  IF IsVirtual(dependency)
  THEN LET J == {j \in 1..Len(kws) :
                   Includes(kws[j].dependents, dependency) /\ j > i}
       IN IF J = {} THEN NoMove ELSE <<Min(J), i>>
  ELSE NoMove

\* One entry of keywords[i].dependencies: the shift it asks for, if any.
DependencyMove(kws, i, dependency) ==
  IF IsVirtual(dependency)
  THEN LET J == {j \in 1..Len(kws) :
                   Includes(kws[j].dependents, dependency) /\ j > i}
       IN IF J = {} THEN NoMove ELSE <<Min(J), i>>
  ELSE LET depIndex == IndexOfKey(kws, dependency)
       IN IF depIndex # 0 /\ depIndex > i THEN <<depIndex, i>> ELSE NoMove

\* One entry of keywords[i].dependents: the shift it asks for, if any.
DependentMove(kws, i, dependent) ==
  IF IsVirtual(dependent)
  THEN LET J == {j \in 1..Len(kws) :
                   Includes(kws[j].dependencies, dependent) /\ j < i}
       IN IF J = {} THEN NoMove ELSE <<i, Min(J)>>
  ELSE LET depIndex == IndexOfKey(kws, dependent)
       IN IF depIndex # 0 /\ depIndex < i THEN <<i, depIndex>> ELSE NoMove

\* `if (...) { shift; changed = true; break; }`: the first shift asked for
\* ends the pass, and what comes after it in the pass is not looked at.
OrElse(m, rest) == IF m # NoMove THEN m ELSE rest

\* for (const dependency of keyword.dependencies): the first entry that moves.
RECURSIVE FirstDependencyMove(_, _, _)
FirstDependencyMove(kws, i, k) ==
  IF k > Len(kws[i].dependencies) THEN NoMove
  ELSE OrElse(DependencyMove(kws, i, kws[i].dependencies[k]),
              FirstDependencyMove(kws, i, k + 1))

\* for (const dependent of keyword.dependents): the first entry that moves.
RECURSIVE FirstDependentMove(_, _, _)
FirstDependentMove(kws, i, k) ==
  IF k > Len(kws[i].dependents) THEN NoMove
  ELSE OrElse(DependentMove(kws, i, kws[i].dependents[k]),
              FirstDependentMove(kws, i, k + 1))

\* The body of the for loop over i: dependencies first, then dependents.
KeywordMove(kws, i) ==
  OrElse(FirstDependencyMove(kws, i, 1), FirstDependentMove(kws, i, 1))

\* for (let i = 0; i < n; i += 1): the first keyword that moves anything.
RECURSIVE PassMove(_, _)
PassMove(kws, i) ==
  IF i > Len(kws) THEN NoMove
  ELSE OrElse(KeywordMove(kws, i), PassMove(kws, i + 1))

\* A variant of ApplyMove that turns the keywords from `to` to `from` around.
ApplyMoveReversing(kws, m) ==
  LET from == m[1]
      to == m[2]
  IN [k \in 1..Len(kws) |->
        IF k < to \/ k > from THEN kws[k] ELSE kws[from + to - k]]

\* The shift loops: the keyword at `from` goes to `to` (to < from) and the
\* keywords in between move up by one.
ApplyMove(kws, m) ==
  LET from == m[1]
      to == m[2]
  IN [k \in 1..Len(kws) |->
        IF k < to \/ k > from THEN kws[k]
        ELSE IF k = to THEN kws[from]
        ELSE kws[k - 1]]

\* A variant of MaxIterations that caps the loop at n passes.
MaxIterationsLinear(kws) == Len(kws)

\* const maxIterations = n * n
MaxIterations(kws) == Len(kws) * Len(kws)

CycleError == "Cycle detected in keyword dependencies"

\* The whole of sortKeywords as a function: whether it threw, and the list
\* as the loop left it.
RECURSIVE SortLoop(_, _)
SortLoop(kws, iters) ==
  LET pass(m) == IF m = NoMove THEN [thrown |-> FALSE, keywords |-> kws]
                 ELSE SortLoop(ApplyMove(kws, m), iters + 1)
  IN IF iters >= MaxIterations(kws) THEN [thrown |-> TRUE, keywords |-> kws]
     ELSE pass(PassMove(kws, 1))

SortKeywords(kws) ==
  IF Len(kws) = 0 THEN [thrown |-> FALSE, keywords |-> kws]
  ELSE SortLoop(kws, 0)

(***************************************************************************)
(* JSON values (schema nodes, instances and annotation values alike): a    *)
(* tag and a payload.  An object is a sequence of <<name, value>> members  *)
(* in insertion order.                                                     *)
(***************************************************************************)
Undefined == <<"undefined">>

Bool(b) == <<"boolean", b>>

Num(n) == <<"number", n>>

Str(s) == <<"string", s>>

Arr(items) == <<"array", items>>

Obj(members) == <<"object", members>>

isBoolean(v) == v[1] = "boolean"

isNumber(v) == v[1] = "number"

isString(v) == v[1] = "string"

isArray(v) == v[1] = "array"

isObject(v) == v[1] = "object"

\* The elements of an array, the members of an object.
Items(v) == v[2]

\* Object.keys(node)
ObjectKeys(v) == [i \in 1..Len(v[2]) |-> v[2][i][1]]

HasKey(v, key) == isObject(v) /\ \E i \in 1..Len(v[2]) : v[2][i][1] = key

\* node[key]
Get(v, key) ==
  IF HasKey(v, key)
  THEN v[2][CHOOSE i \in 1..Len(v[2]) : v[2][i][1] = key][2]
  ELSE Undefined

\* The pointer token of an array index.
IndexToken(index) == ToString(index)

\* One step of a JSON pointer: a member of an object, an element of an array.
Child(v, token) ==
  IF isObject(v) THEN Get(v, token)
  ELSE IF isArray(v)
  THEN LET I == {i \in 1..Len(v[2]) : IndexToken(i - 1) = token}
       IN IF I = {} THEN Undefined ELSE v[2][CHOOSE i \in I : TRUE]
  ELSE Undefined

\* The node a path of tokens leads to from the root of a document.  A node
\* is identified by its path: equal contents at two paths are two nodes.
RECURSIVE NodeAt(_, _)
NodeAt(v, path) ==
  IF path = <<>> THEN v ELSE NodeAt(Child(v, Head(path)), Tail(path))

\* keywordLocation.endsWith("/" + keyword), on pointers kept as token lists.
EndsWith(pointer, keyword) ==
  Len(pointer) > 0 /\ pointer[Len(pointer)] = keyword

\* keywordLocation.startsWith(prefix), on pointers kept as token lists.
StartsWith(pointer, prefix) ==
  /\ Len(prefix) <= Len(pointer)
  /\ \A i \in 1..Len(prefix) : pointer[i] = prefix[i]

RECURSIVE Flatten(_)
Flatten(seqs) == IF seqs = <<>> THEN <<>> ELSE Head(seqs) \o Flatten(Tail(seqs))

\* The entries of seq that satisfy the Boolean mask, in order.
RECURSIVE Pick(_, _)
Pick(seq, mask) ==
  IF seq = <<>> THEN <<>>
  ELSE (IF Head(mask) THEN <<Head(seq)>> ELSE <<>>) \o Pick(Tail(seq), Tail(mask))

Range(seq) == {seq[i] : i \in 1..Len(seq)}

(***************************************************************************)
(* Output units (output.ts).  The lists errors and annotations are created *)
(* by the first push, so an undefined list is the empty sequence; an       *)
(* undefined error is NoError and an undefined annotation is Undefined.    *)
(* Every read of a location in output.ts is made on a unit initOutput has  *)
(* run on, so a unit carries its two locations from the start.             *)
(***************************************************************************)
NoError == <<>>

\* frame.output = { valid: true }, with the locations initOutput gives it.
initOutput(keywordLocation, instanceLocation) ==
  [valid |-> TRUE,
   keywordLocation |-> keywordLocation,
   instanceLocation |-> instanceLocation,
   error |-> NoError,
   annotation |-> Undefined,
   errors |-> <<>>,
   annotations |-> <<>>]

IsEmptyOutput(output) ==
  /\ output.error = NoError
  /\ output.annotation = Undefined
  /\ Len(output.errors) = 0
  /\ Len(output.annotations) = 0

\* The unit emitOutput goes on with: the unit itself, or its only child.
HoistOutput(output) ==
  IF output.error = NoError /\ output.annotation = Undefined
  THEN IF Len(output.errors) = 1
          /\ (Len(output.annotations) = 0 \/ Len(output.annotations) = 1)
       THEN output.errors[1]
       ELSE IF Len(output.annotations) = 1
               /\ (Len(output.errors) = 0 \/ Len(output.errors) = 1)
       THEN output.annotations[1]
       ELSE output
  ELSE output

\* A variant of emitOutput that leaves the ancestor valid when it pushes an
\* invalid unit to its errors.
emitOutputKeepsValid(baseOutput, output) ==
  IF IsEmptyOutput(output) THEN baseOutput
  ELSE LET unit == HoistOutput(output)
       IN IF ~unit.valid
          THEN [baseOutput EXCEPT !.errors = Append(@, unit)]
          ELSE [baseOutput EXCEPT !.annotations = Append(@, unit)]

\* emitOutput(context, frame): baseOutput is the output of the nearest
\* ancestor frame that has one; the result is baseOutput afterwards.
emitOutput(baseOutput, output) ==
  IF IsEmptyOutput(output) THEN baseOutput
  ELSE LET unit == HoistOutput(output)
       IN IF ~unit.valid
          THEN [baseOutput EXCEPT !.valid = FALSE, !.errors = Append(@, unit)]
          ELSE [baseOutput EXCEPT !.annotations = Append(@, unit)]

\* A variant of attachError that records the message and leaves the unit
\* valid.
attachErrorKeepsValid(output, message) ==
  [output EXCEPT !.error = message]

attachError(output, message) ==
  [output EXCEPT !.valid = FALSE, !.error = message]

attachAnnotation(output, value) ==
  [output EXCEPT !.annotation = value]

\* getAnnotations(output, keywordSuffix) for a defined output: the units found,
\* in the order they are pushed.
RECURSIVE getAnnotationsOf(_, _)
getAnnotationsOf(output, keyword) ==
  IF output.valid # TRUE THEN <<>>
  ELSE (IF output.annotation # Undefined
           /\ EndsWith(output.keywordLocation, keyword)
        THEN <<output>> ELSE <<>>)
       \o Flatten([i \in 1..Len(output.annotations) |->
                     IF output.instanceLocation
                          = output.annotations[i].instanceLocation
                     THEN getAnnotationsOf(output.annotations[i], keyword)
                     ELSE <<>>])

\* getAnnotations(frame.parent?.output, ...): `view` is <<>> for an undefined
\* output and <<output>> otherwise.
getAnnotations(view, keyword) ==
  IF view = <<>> THEN <<>> ELSE getAnnotationsOf(view[1], keyword)

\* getAnnotation(output, keywordLocation) for a defined output: <<>> when
\* nothing is found, <<unit>> otherwise.
RECURSIVE getAnnotationOf(_, _)
RECURSIVE FirstAnnotation(_, _, _)
FirstAnnotation(output, keywordLocation, i) ==
  IF i > Len(output.annotations) THEN <<>>
  ELSE LET subUnit == getAnnotationOf(output.annotations[i], keywordLocation)
       IN IF subUnit # <<>> THEN subUnit
          ELSE FirstAnnotation(output, keywordLocation, i + 1)

getAnnotationOf(output, keywordLocation) ==
  IF output.keywordLocation = keywordLocation /\ output.annotation # Undefined
  THEN <<output>>
  ELSE IF Len(output.annotations) > 0
          /\ StartsWith(keywordLocation, output.keywordLocation)
  THEN FirstAnnotation(output, keywordLocation, 1)
  ELSE <<>>

getAnnotation(view, keywordLocation) ==
  IF view = <<>> THEN <<>> ELSE getAnnotationOf(view[1], keywordLocation)

\* getChildAnnotation(frame, keyword): frame.output is `view`, and
\* currentPointer(frame) is `pointer`.
getChildAnnotation(view, pointer, keyword) ==
  getAnnotation(view, Append(pointer, keyword))

\* getChildAnnotation(...)?.annotation
AnnotationOf(found) == IF found = <<>> THEN Undefined ELSE found[1].annotation

saveCheckpoint(output) ==
  [valid |-> output.valid, error |-> output.error, errors |-> output.errors]

\* A variant of restoreCheckpoint that also takes the nested annotations
\* out of the unit.
restoreWithoutAnnotations(output, checkpoint) ==
  [output EXCEPT !.valid = checkpoint.valid, !.error = checkpoint.error,
                 !.errors = checkpoint.errors, !.annotations = <<>>]

\* A variant of restoreCheckpoint that leaves the unit as it is.
restoreNothing(output, checkpoint) == output

restoreCheckpoint(output, checkpoint) ==
  [output EXCEPT !.valid = checkpoint.valid,
                 !.error = checkpoint.error,
                 !.errors = checkpoint.errors]

\* <<keywordLocation, instanceLocation>> of every unit of a tree that holds an
\* annotation, through both lists.
RECURSIVE AnnotatedUnits(_)
AnnotatedUnits(output) ==
  (IF output.annotation # Undefined
   THEN {<<output.keywordLocation, output.instanceLocation>>} ELSE {})
  \cup UNION {AnnotatedUnits(output.errors[i]) : i \in 1..Len(output.errors)}
  \cup UNION {AnnotatedUnits(output.annotations[i]) :
                i \in 1..Len(output.annotations)}

UnitIds(units) ==
  {<<units[i].keywordLocation, units[i].instanceLocation>> : i \in 1..Len(units)}
(***************************************************************************)
(* The keyword table of the draft 2020-12 dialect: the dependencies and    *)
(* dependents each keyword declares.  A key the dialect does not know gets *)
(* unknownKeyword(key), which declares none.                               *)
(***************************************************************************)
Dependencies(key) ==
  CASE key \in {"then", "else"} -> <<"if">>
    [] key = "items" -> <<"prefixItems">>
    [] key = "additionalProperties" -> <<"properties", "patternProperties">>
    [] key \in {"maxContains", "minContains"} -> <<"contains">>
    [] key = "unevaluatedItems" ->
         <<"@unevaluated", "prefixItems", "items", "contains">>
    [] key = "unevaluatedProperties" ->
         <<"@unevaluated", "properties", "patternProperties",
           "additionalProperties">>
    [] OTHER -> <<>>

Dependents(key) ==
  IF key \in {"allOf", "anyOf", "oneOf", "not", "then", "else",
              "dependentSchemas"}
  THEN <<"@unevaluated">>
  ELSE <<>>

\* dialect.keywords is an object literal, so the lookup
\* resource.dialect.keywords[key] also finds what every object inherits
\* from Object.prototype: for these keys it yields a function, which is not
\* nullish and has neither dependencies nor dependents nor parse.
InheritedNames == {"toString"}

\* resource.dialect.keywords[key] ?? unknownKeyword(key)
DialectKeyword(key) ==
  [key |-> key, dependencies |-> Dependencies(key), dependents |-> Dependents(key)]

\* The keys of a schema object in the order validation runs them.
SortedKeys(node) ==
  LET keysOf(sorted) ==
        [thrown |-> sorted.thrown,
         keys |-> [i \in 1..Len(sorted.keywords) |-> sorted.keywords[i].key]]
  IN keysOf(SortKeywords([i \in 1..Len(ObjectKeys(node)) |->
                            DialectKeyword(ObjectKeys(node)[i])]))

(***************************************************************************)
(* URI references.  A reference is [base, hash, fragment]: the part before *)
(* "#", whether there is a "#", and the part after it.  The strings the    *)
(* schemas of the model use are parsed by table.                           *)
(***************************************************************************)
Dialect202012 == "https://json-schema.org/draft/2020-12/schema"

UnknownDialect == "urn:unknown-dialect"

parseUriReference(s) ==
  CASE s = "#" -> [base |-> "", hash |-> TRUE, fragment |-> ""]
    [] s = "#/$defs/X" -> [base |-> "", hash |-> TRUE, fragment |-> "/$defs/X"]
    [] s = "#node" -> [base |-> "", hash |-> TRUE, fragment |-> "node"]
    [] s = "urn:tree#node" ->
         [base |-> "urn:tree", hash |-> TRUE, fragment |-> "node"]
    [] OTHER -> [base |-> s, hash |-> FALSE, fragment |-> ""]

\* resolveUri(currentBaseUri(frame), uri): a reference without a base of its
\* own takes the current base.
resolveUri(baseUri, uri) ==
  IF uri.base = "" THEN [uri EXCEPT !.base = baseUri] ELSE uri

\* The tokens of a fragment that is a JSON pointer.
IsPointerFragment(fragment) == fragment \in {"", "/$defs/X"}

PointerTokens(fragment) ==
  IF fragment = "/$defs/X" THEN <<"$defs", "X">> ELSE <<>>

\* /^[A-Za-z_][A-Za-z0-9\-_.]*$/ on the anchor names of the model.
IsIdentifier(s) == s \in {"node", "leaf"}

isValidUri(s) == s \in {Dialect202012, UnknownDialect, "urn:tree", "urn:strict"}

(***************************************************************************)
(* The context: the document, the resource registry, the anchors and the   *)
(* references registered by parsing, and the error of the last parse.      *)
(* A resource is keyed by the path of its node.                            *)
(***************************************************************************)
NoDialect == ""

createContext(root) ==
  [root |-> root, resources |-> {}, anchors |-> {}, references |-> {},
   patternCache |-> {}, validation |-> "undefined", parses |-> <<>>,
   error |-> ""]

\* if (options?.validation !== undefined) context.validation = ...: one of
\* "undefined", "false", "true" and "strict"; undefined and false leave format
\* validation off.
initSchemaContext(context, validation) ==
  [context EXCEPT !.validation = validation]

\* The patterns new RegExp(pattern, "u") throws a SyntaxError on.
InvalidPatterns == {"("}

\* A variant of cachePattern in which a regular expression taken from the
\* cache no longer matches what it matched when it was built.
cachePatternStale(context, pattern) ==
  IF pattern \in context.patternCache
  THEN [thrown |-> "", source |-> "stale", set |-> FALSE]
  ELSE IF pattern \in InvalidPatterns
  THEN [thrown |-> "SyntaxError", source |-> pattern, set |-> FALSE]
  ELSE [thrown |-> "", source |-> pattern, set |-> TRUE]

\* cachePattern(context, pattern): the regular expression the cache holds
\* for the pattern or new RegExp builds for it, or the SyntaxError new RegExp
\* throws.  A RegExp is known by its source; `set` tells that the call has
\* put the new RegExp into the cache.
cachePattern(context, pattern) ==
  IF pattern \in context.patternCache
  THEN [thrown |-> "", source |-> pattern, set |-> FALSE]
  ELSE IF pattern \in InvalidPatterns
  THEN [thrown |-> "SyntaxError", source |-> pattern, set |-> FALSE]
  ELSE [thrown |-> "", source |-> pattern, set |-> TRUE]

createResource(at) ==
  [at |-> at, dialect |-> NoDialect, hasKeys |-> FALSE, keys |-> <<>>,
   uri |-> ""]

HasResource(context, at) == \E r \in context.resources : r.at = at

getResource(context, at) == CHOOSE r \in context.resources : r.at = at

setResource(context, resource) ==
  [context EXCEPT !.resources =
     {r \in @ : r.at # resource.at} \cup {resource}]

\* A variant of isSchemaResource that takes no resource for initialized.
isSchemaResourceNever(context, at) == FALSE

\* isSchemaResource(getResource(context, node))
isSchemaResource(context, at) ==
  /\ HasResource(context, at)
  /\ getResource(context, at).dialect # NoDialect
  /\ getResource(context, at).hasKeys

\* throw new ValidationError(message)
Throw(context, message) == [context EXCEPT !.error = message]

RECURSIVE parseSchemaResource(_, _)
RECURSIVE ParseSubschemas(_, _, _, _)
RECURSIVE ParseKeywords(_, _, _, _, _)

\* The loops of the applicator keywords over their sub-schemas.
ParseSubschemas(context, paths, i, baseUri) ==
  IF context.error # "" \/ i > Len(paths) THEN context
  ELSE ParseSubschemas(
         parseSchemaResource(context, [at |-> paths[i], baseUri |-> baseUri]),
         paths, i + 1, baseUri)

(***************************************************************************)
(* keyword.parse(context) of the keyword `key` of the schema at `at`: the  *)
(* context afterwards and the base URI of the schema frame afterwards.     *)
(***************************************************************************)
Parsed(context, baseUri) == [context |-> context, baseUri |-> baseUri]

\* allOf, anyOf, oneOf, prefixItems: a non-empty array of schemas.
SchemaArrayParse(context, key, at, baseUri) ==
  LET node == NodeAt(context.root, Append(at, key))
  IN IF ~isArray(node) \/ Len(Items(node)) = 0
     THEN Parsed(Throw(context, "must be a non-empty array"), baseUri)
     ELSE Parsed(ParseSubschemas(context,
                   [i \in 1..Len(Items(node)) |->
                      at \o <<key, IndexToken(i - 1)>>],
                   1, baseUri), baseUri)

\* not, if, then, else, items, contains, additionalProperties,
\* unevaluatedItems, unevaluatedProperties: one schema.
SubschemaParse(context, key, at, baseUri) ==
  Parsed(parseSchemaResource(context,
           [at |-> Append(at, key), baseUri |-> baseUri]), baseUri)

\* properties, dependentSchemas, $defs: an object of schemas.
SchemaMapParse(context, key, at, baseUri) ==
  LET node == NodeAt(context.root, Append(at, key))
  IN IF ~isObject(node)
     THEN Parsed(Throw(context, "must be an object"), baseUri)
     ELSE Parsed(ParseSubschemas(context,
                   [i \in 1..Len(Items(node)) |->
                      at \o <<key, ObjectKeys(node)[i]>>],
                   1, baseUri), baseUri)

typeKeyword_parse(context, at, baseUri) ==
  LET node == NodeAt(context.root, Append(at, "type"))
  IN IF ~isString(node) /\ ~isArray(node)
     THEN Parsed(Throw(context, "must be a string or an array of strings"),
                 baseUri)
     ELSE IF isArray(node)
             /\ \E i \in 1..Len(Items(node)) : ~isString(Items(node)[i])
     THEN Parsed(Throw(context, "array elements must be strings"), baseUri)
     ELSE Parsed(context, baseUri)

requiredKeyword_parse(context, at, baseUri) ==
  LET node == NodeAt(context.root, Append(at, "required"))
  IN IF ~isArray(node)
        \/ \E i \in 1..Len(Items(node)) : ~isString(Items(node)[i])
     THEN Parsed(Throw(context, "must be an array of strings"), baseUri)
     ELSE IF \E i, j \in 1..Len(Items(node)) :
               i # j /\ Items(node)[i] = Items(node)[j]
     THEN Parsed(Throw(context, "property names must be unique"), baseUri)
     ELSE Parsed(context, baseUri)

\* pattern, format: a string.  pattern caches its regular expression, and
\* the SyntaxError of one that is not valid is caught and dropped.
StringKeywordParse(context, key, at, baseUri) ==
  LET node == NodeAt(context.root, Append(at, key))
  IN IF ~isString(node) THEN Parsed(Throw(context, "must be a string"), baseUri)
     ELSE IF key = "pattern" /\ cachePattern(context, node[2]).set
     THEN Parsed([context EXCEPT !.patternCache = @ \cup {node[2]}], baseUri)
     ELSE Parsed(context, baseUri)

\* maxContains, minContains: a non-negative integer.
ContainsCountParse(context, key, at, baseUri) ==
  LET node == NodeAt(context.root, Append(at, key))
  IN IF ~isNumber(node) \/ node[2] < 0
     THEN Parsed(Throw(context, "must be a non-negative integer"), baseUri)
     ELSE Parsed(context, baseUri)

idKeyword_parse(context, at, baseUri) ==
  LET node == NodeAt(context.root, Append(at, "$id"))
      register(uri) ==
        IF uri.hash /\ uri.fragment # ""
        THEN Parsed(Throw(context,
                      "$id must not contain a non-empty fragment identifier"),
                    baseUri)
        ELSE IF ~isSchemaResource(context, at)
        THEN Parsed(Throw(context, "Unknown parent resource"), baseUri)
        ELSE Parsed(setResource(context,
                      [getResource(context, at) EXCEPT !.uri = uri.base]),
                    uri.base)
  IN IF ~isString(node)
     THEN Parsed(Throw(context, "$id must be a string"), baseUri)
     ELSE register(resolveUri(baseUri, parseUriReference(node[2])))

\* $anchor, $dynamicAnchor: setResourceAnchor(resource, node, schemaFrame.node)
AnchorParse(context, key, at, baseUri) ==
  LET node == NodeAt(context.root, Append(at, key))
  IN IF ~isString(node)
     THEN Parsed(Throw(context, "anchor must be a string"), baseUri)
     ELSE IF ~IsIdentifier(node[2])
     THEN Parsed(Throw(context, "anchor must be a valid identifier"), baseUri)
     ELSE Parsed([context EXCEPT !.anchors =
                    {a \in @ : ~(a.base = baseUri /\ a.name = node[2])}
                    \cup {[base |-> baseUri, name |-> node[2], at |-> at]}],
                 baseUri)

\* $ref, $dynamicRef: registerReference(context, schemaFrame.node, key, href)
ReferenceParse(context, key, at, baseUri) ==
  LET node == NodeAt(context.root, Append(at, key))
  IN IF ~isString(node)
     THEN Parsed(Throw(context, "reference must be a string"), baseUri)
     ELSE Parsed([context EXCEPT !.references =
                    {r \in @ : ~(r.at = at /\ r.kind = key)}
                    \cup {[at |-> at, kind |-> key,
                           uri |-> resolveUri(baseUri,
                                     parseUriReference(node[2]))]}],
                 baseUri)

\* keyword.parse(context) of the keyword the dialect holds for `key`; the
\* keywords left out here have the parse of Keyword.prototype, which does
\* nothing.
KeywordParse(context, key, at, baseUri) ==
  CASE key \in {"allOf", "anyOf", "oneOf", "prefixItems"} ->
         SchemaArrayParse(context, key, at, baseUri)
    [] key \in {"not", "if", "then", "else", "items", "contains",
                "additionalProperties", "unevaluatedItems",
                "unevaluatedProperties"} ->
         SubschemaParse(context, key, at, baseUri)
    [] key \in {"properties", "$defs", "dependentSchemas"} ->
         SchemaMapParse(context, key, at, baseUri)
    [] key = "type" -> typeKeyword_parse(context, at, baseUri)
    [] key = "required" -> requiredKeyword_parse(context, at, baseUri)
    [] key \in {"minContains", "maxContains"} ->
         ContainsCountParse(context, key, at, baseUri)
    [] key \in {"pattern", "format"} ->
         StringKeywordParse(context, key, at, baseUri)
    [] key = "$id" -> idKeyword_parse(context, at, baseUri)
    [] key \in {"$anchor", "$dynamicAnchor"} ->
         AnchorParse(context, key, at, baseUri)
    [] key \in {"$ref", "$dynamicRef"} ->
         ReferenceParse(context, key, at, baseUri)
    [] OTHER -> Parsed(context, baseUri)

\* for (const keyword of keywords) nestFrame(... keyword.parse(context))
\* context.parses lists the calls of keyword.parse made so far, each as the
\* schema node and the key.
ParseKeywords(context, at, baseUri, keys, i) ==
  LET next(r) == ParseKeywords(r.context, at, r.baseUri, keys, i + 1)
  IN IF context.error # "" \/ i > Len(keys) THEN context
     ELSE next(KeywordParse([context EXCEPT !.parses = Append(@, <<at, keys[i]>>)],
                            keys[i], at, baseUri))

parseSchemaResource(context, frame) ==
  LET node == NodeAt(context.root, frame.at)
      \* resource.keys = sorted keys; then the keywords parse in that order.
      \* sortKeywords iterates keyword.dependencies of every keyword.
      parseKeys(withDialect, sorted) ==
        IF \E k \in 1..Len(ObjectKeys(node)) :
             ObjectKeys(node)[k] \in InheritedNames
        THEN Throw(withDialect, "TypeError")
        ELSE IF sorted.thrown THEN Throw(withDialect, CycleError)
        ELSE ParseKeywords(
               setResource(withDialect,
                 [getResource(withDialect, frame.at) EXCEPT
                    !.hasKeys = TRUE, !.keys = sorted.keys]),
               frame.at, frame.baseUri, sorted.keys, 1)
      \* The $schema checks on the registered resource.
      parseDialect(registered, dialectUri) ==
        IF dialectUri # Undefined /\ ~isString(dialectUri)
        THEN Throw(registered, "$schema must be a string")
        ELSE IF dialectUri # Undefined /\ ~isValidUri(dialectUri[2])
        THEN Throw(registered, "$schema must be a valid URI")
        ELSE IF dialectUri # Undefined /\ dialectUri[2] # Dialect202012
        THEN Throw(setResource(registered,
                     [getResource(registered, frame.at) EXCEPT
                        !.dialect = NoDialect]),
                   "Unknown dialect")
        ELSE parseKeys(setResource(registered,
                         [getResource(registered, frame.at) EXCEPT
                            !.dialect = Dialect202012]),
                       SortedKeys(node))
  IN IF isBoolean(node) THEN context
     ELSE IF ~isObject(node)
     THEN Throw(context, "Schema must be an object or a boolean")
     ELSE IF isSchemaResource(context, frame.at) THEN context
     ELSE parseDialect(IF HasResource(context, frame.at) THEN context
                       ELSE setResource(context, createResource(frame.at)),
                       Get(node, "$schema"))

(***************************************************************************)
(* Reference resolution (the registry of tool-json, as the specification   *)
(* describes it): the base names a resource, the fragment a node in it.    *)
(***************************************************************************)
\* <<path>> of the root node of the resource a base URI names, or <<>>.
ResourceRoot(context, base) ==
  IF base = "" THEN << <<>> >>
  ELSE LET R == {r \in context.resources : r.uri = base}
       IN IF R = {} THEN <<>> ELSE <<(CHOOSE r \in R : TRUE).at>>

\* <<path>> of the node a resolved URI names, or <<>> when it names none.
ResolveTarget(context, uri) ==
  LET root == ResourceRoot(context, uri.base)
  IN IF root = <<>> THEN <<>>
     ELSE IF ~uri.hash \/ IsPointerFragment(uri.fragment)
     THEN LET path == root[1] \o PointerTokens(uri.fragment)
          IN IF NodeAt(context.root, path) = Undefined THEN <<>> ELSE <<path>>
     ELSE LET A == {a \in context.anchors :
                      a.base = uri.base /\ a.name = uri.fragment}
          IN IF A = {} THEN <<>> ELSE <<(CHOOSE a \in A : TRUE).at>>

\* getReference(context, node) for the keyword `kind` of the node at `at`:
\* <<>> when none is registered, else <<[target]>> with the path of the
\* target in a sequence, empty when the reference did not resolve.
getReference(context, at, kind) ==
  LET R == {r \in context.references : r.at = at /\ r.kind = kind}
  IN IF R = {} THEN <<>>
     ELSE <<[target |-> ResolveTarget(context, (CHOOSE r \in R : TRUE).uri)]>>

\* resolveReferences(context, resource)
resolveReferences(context) ==
  IF \E r \in context.references : ResolveTarget(context, r.uri) = <<>>
  THEN Throw(context, "Unresolved reference")
  ELSE context

\* parseSchema(node, context): a parse of the document of the context.  The
\* error of an earlier parse is not part of the context.
parseSchema(context) ==
  LET resolve(parsed) ==
        IF parsed.error # "" THEN parsed ELSE resolveReferences(parsed)
  IN resolve(parseSchemaResource([context EXCEPT !.error = ""],
                                 [at |-> <<>>, baseUri |-> ""]))
(***************************************************************************)
(* Validation.  A frame is                                                 *)
(*   at               the path of frame.node in the document,              *)
(*   instance         frame.instance,                                      *)
(*   pointer          currentPointer(frame), as tokens,                    *)
(*   instanceLocation instanceLocation(frame), as tokens,                  *)
(*   scope            the paths of the nodes of the frames validation has  *)
(*                    entered a schema at, outermost first,                *)
(*   depth            the number of those frames,                          *)
(*   own              whether frame.output is defined.                     *)
(* An evaluation threads the output unit its frame writes to, which is the *)
(* output of the frame itself or, when it has none, of the nearest         *)
(* ancestor that has one.  It returns that unit together with the name of  *)
(* the exception it ended on ("" when it returned) and the trace: the      *)
(* resolutions, lookups and restores made so far, in order.                *)
(***************************************************************************)
Result(output, thrown, trace) ==
  [output |-> output, thrown |-> thrown, trace |-> trace]

\* A nested frame: nodeKey and instanceKey are <<>> when the code leaves them
\* undefined and <<token>> otherwise.
SubFrame(frame, nodeKey, instanceKey, instance) ==
  [at |-> frame.at \o nodeKey,
   instance |-> instance,
   pointer |-> frame.pointer \o nodeKey,
   instanceLocation |-> frame.instanceLocation \o instanceKey,
   scope |-> frame.scope,
   depth |-> frame.depth,
   own |-> TRUE]

\* frame.parent.output as a keyword of the schema frame `parent` sees it.
ParentView(parent, output) == IF parent.own THEN <<output>> ELSE <<>>

\* isType(type, instance)
isType(type, instance) ==
  \/ instance[1] = type
  \/ type = "integer" /\ isNumber(instance)

\* The names (or indices) an annotation value lists.
Listed(value) ==
  IF isArray(value) THEN {Items(value)[i][2] : i \in 1..Len(Items(value))}
  ELSE {}

\* The member names of an object instance that sibling or nested keywords of
\* the schema frame `parent` have evaluated successfully at the instance
\* location of the frame, read from the units they have emitted so far.
EvaluatedProperties(parent, output) ==
  UNION {Listed(u.annotation) :
           u \in UNION {Range(getAnnotationsOf(output.annotations[i], keyword)) :
                          i \in {j \in 1..Len(output.annotations) :
                                   /\ StartsWith(output.annotations[j].keywordLocation,
                                                 parent.pointer)
                                   /\ output.annotations[j].instanceLocation
                                        = parent.instanceLocation},
                          keyword \in {"properties", "patternProperties",
                                       "additionalProperties",
                                       "unevaluatedProperties"}}}

\* The same for the indices of an array instance of the given length.
EvaluatedItems(parent, output, length) ==
  UNION {IF u.annotation = Bool(TRUE) THEN 0..(length - 1)
         ELSE IF isNumber(u.annotation) THEN 0..(u.annotation[2] - 1)
         ELSE Listed(u.annotation) :
           u \in UNION {Range(getAnnotationsOf(output.annotations[i], keyword)) :
                          i \in {j \in 1..Len(output.annotations) :
                                   /\ StartsWith(output.annotations[j].keywordLocation,
                                                 parent.pointer)
                                   /\ output.annotations[j].instanceLocation
                                        = parent.instanceLocation},
                          keyword \in {"prefixItems", "items", "contains",
                                       "unevaluatedItems"}}}

\* A variant of DynamicTarget that stops at the first frame that declares the
\* anchor, the one nearest the $dynamicRef.
RECURSIVE DynamicTargetInnermost(_, _, _, _, _)
DynamicTargetInnermost(root, scope, anchor, i, resolved) ==
  IF i = 0 THEN resolved
  ELSE IF isObject(NodeAt(root, scope[i]))
          /\ Get(NodeAt(root, scope[i]), "$dynamicAnchor") = Str(anchor)
  THEN scope[i]
  ELSE DynamicTargetInnermost(root, scope, anchor, i - 1, resolved)

\* The loop of the $dynamicRef keyword over the frames from the current one
\* up to the root: every frame whose node declares the anchor replaces the
\* target, so the last one met stays.  `i` runs from Len(scope) down to 1.
RECURSIVE DynamicTarget(_, _, _, _, _)
DynamicTarget(root, scope, anchor, i, resolved) ==
  IF i = 0 THEN resolved
  ELSE DynamicTarget(root, scope, anchor, i - 1,
         IF isObject(NodeAt(root, scope[i]))
            /\ Get(NodeAt(root, scope[i]), "$dynamicAnchor") = Str(anchor)
         THEN scope[i] ELSE resolved)

RECURSIVE validateSchemaResource(_, _, _, _)
RECURSIVE ValidateKeywords(_, _, _, _, _, _)
RECURSIVE ApplySubschemas(_, _, _, _, _, _)

\* The loops of the applicator keywords: each sub-frame gets a fresh output,
\* is validated, and is emitted to the output of the keyword unless the
\* keyword does not emit.  `outputs` collects frame.output of the sub-frames.
ApplySubschemas(context, subs, i, emit, output, r) ==
  LET next(sub) ==
        ApplySubschemas(context, subs, i + 1, emit,
          IF emit /\ sub.thrown = "" THEN emitOutput(output, sub.output)
          ELSE output,
          Result(Append(r.output, sub.output), sub.thrown, sub.trace))
  IN IF r.thrown # "" \/ i > Len(subs)
     THEN [output |-> output, outputs |-> r.output, thrown |-> r.thrown,
           trace |-> r.trace]
     ELSE next(validateSchemaResource(context, subs[i],
                 initOutput(subs[i].pointer, subs[i].instanceLocation),
                 r.trace))

\* The units with annotations that the failed sub-frames of a loop left.
FailedUnits(outputs) ==
  UNION {IF outputs[i].valid THEN {} ELSE AnnotatedUnits(outputs[i]) :
           i \in 1..Len(outputs)}

\* restoreCheckpoint by the keyword of `frame`: the units below the keyword
\* that the restore takes out of the errors are those of the failed sub-frames.
\* `before` is the unit of the keyword as the restore finds it.
RestoreEvent(frame, key, failed, checkpoint, before) ==
  [kind |-> "restore", keyword |-> key, failed |-> failed,
   keywordLocation |-> frame.pointer,
   instanceLocation |-> frame.instanceLocation,
   saved |-> checkpoint, before |-> before,
   after |-> restoreCheckpoint(before, checkpoint)]

\* then or else, the keyword of `frame` in the schema object of the frame
\* `parent`, has looked for the annotation of `if` and applies its
\* sub-schema to the instance or not.
ConditionalEvent(frame, parent, key, applied) ==
  [kind |-> "conditional", keyword |-> key, applied |-> applied,
   schema |-> parent.at, instance |-> frame.instance]

\* additionalProperties, the keyword of `frame`, has applied its sub-schema
\* to the members named `applied` of the object instance and attached its
\* error or annotation, with `produced` the names in the annotations of
\* properties and patternProperties of the same schema object.
AdditionalEvent(frame, produced, applied, output) ==
  [kind |-> "additional",
   members |-> {Items(frame.instance)[k][1] :
                  k \in 1..Len(Items(frame.instance))},
   produced |-> produced, applied |-> Range(applied),
   valid |-> output.valid, annotation |-> output.annotation]

\* validateSchemaResource has returned from the boolean schema `value` of
\* `frame`, leaving `output` as the output of the frame.
BooleanEvent(frame, value, output) ==
  [kind |-> "boolean", value |-> value, valid |-> output.valid,
   keywordLocation |-> frame.pointer,
   instanceLocation |-> frame.instanceLocation]

\* The keyword of `frame` has returned with an error attached to its output.
ErrorEvent(frame, key) ==
  [kind |-> "error", keyword |-> key,
   keywordLocation |-> frame.pointer,
   instanceLocation |-> frame.instanceLocation]

LookupEvent(key, found) == [kind |-> "lookup", keyword |-> key, found |-> UnitIds(found)]

(***************************************************************************)
(* keyword.validate(context), one operator per keyword.  `frame` is the    *)
(* keyword frame, whose output starts as KeywordOutput(frame), under the   *)
(* schema frame `parent`, whose emitted units so far are in `base`.  The   *)
(* result holds frame.output.                                              *)
(***************************************************************************)
\* frame.output = { valid: true } of a keyword frame.
KeywordOutput(frame) == initOutput(frame.pointer, frame.instanceLocation)

\* The state of a loop over sub-frames before its first round.
Start(trace) == Result(<<>>, "", trace)

Done(r, out) == Result(out, r.thrown, r.trace)

Elements(instance) == IF isArray(instance) THEN Items(instance) ELSE <<>>

Members(instance) == IF isObject(instance) THEN Items(instance) ELSE <<>>

\* The sub-frames of the elements at the given indices: instanceKey is the
\* index and nodeKey stays undefined.
ItemFrames(frame, indices) ==
  [k \in 1..Len(indices) |->
     SubFrame(frame, <<>>, <<IndexToken(indices[k])>>,
              Elements(frame.instance)[indices[k] + 1])]

\* The sub-frames of the members of the given names: instanceKey is the name
\* and nodeKey stays undefined.
MemberFrames(frame, names) ==
  [k \in 1..Len(names) |->
     SubFrame(frame, <<>>, <<names[k]>>, Get(frame.instance, names[k]))]

\* The sub-frames of allOf, anyOf and oneOf: nodeKey is the index.
SchemaFrames(frame, node) ==
  [k \in 1..Len(Items(node)) |->
     SubFrame(frame, <<IndexToken(k - 1)>>, <<>>, frame.instance)]

\* A variant of Ascending that lists the largest first.
Descending(S) ==
  [k \in 1..Cardinality(S) |->
     CHOOSE x \in S : Cardinality({y \in S : y > x}) = k - 1]

\* The elements of a set of numbers in the order the loops meet them.
Ascending(S) ==
  [k \in 1..Cardinality(S) |->
     CHOOSE x \in S : Cardinality({y \in S : y < x}) = k - 1]

\* The member names of the instance the mask selects, in instance order.
Names(instance, mask) ==
  Pick([k \in 1..Len(Members(instance)) |-> Members(instance)[k][1]], mask)

Invalid(outputs) == [k \in 1..Len(outputs) |-> ~outputs[k].valid]

AllValid(outputs) == \A k \in 1..Len(outputs) : outputs[k].valid

typeKeyword_validate(context, frame, parent, base, trace) ==
  LET node == NodeAt(context.root, frame.at)
      instance == frame.instance
      output == KeywordOutput(frame)
  IN IF isString(node) /\ ~isType(node[2], instance)
     THEN Result(attachError(output, <<"not", node[2]>>), "", trace)
     ELSE IF isArray(node)
             /\ ~\E k \in 1..Len(Items(node)) :
                   isType(Items(node)[k][2], instance)
     THEN Result(attachError(output,
                   <<"not">> \o [k \in 1..Len(Items(node)) |->
                                   Items(node)[k][2]]), "", trace)
     ELSE Result(output, "", trace)

requiredKeyword_validate(context, frame, parent, base, trace) ==
  LET node == NodeAt(context.root, frame.at)
      instance == frame.instance
      output == KeywordOutput(frame)
      missing == Pick([k \in 1..Len(Items(node)) |-> Items(node)[k][2]],
                      [k \in 1..Len(Items(node)) |->
                         Get(instance, Items(node)[k][2]) = Undefined])
  IN IF isObject(instance) /\ Len(missing) # 0
     THEN Result(attachError(output,
                   <<"missing required properties">> \o missing),
                 "", trace)
     ELSE Result(output, "", trace)

allOfKeyword_validate(context, frame, parent, base, trace) ==
  LET node == NodeAt(context.root, frame.at)
      after(r) ==
        Done(r, IF ~AllValid(r.outputs)
                THEN attachError(r.output,
                       <<"not valid against all subschemas">>)
                ELSE r.output)
  IN after(ApplySubschemas(context, SchemaFrames(frame, node), 1, TRUE,
                           KeywordOutput(frame), Start(trace)))

anyOfKeyword_validate(context, frame, parent, base, trace) ==
  LET node == NodeAt(context.root, frame.at)
      checkpoint == saveCheckpoint(KeywordOutput(frame))
      after(r) ==
        IF ~\E k \in 1..Len(r.outputs) : r.outputs[k].valid
        THEN Done(r, attachError(r.output,
                       <<"not valid against any subschemas">>))
        ELSE Result(restoreCheckpoint(r.output, checkpoint), r.thrown,
                    Append(r.trace,
                           RestoreEvent(frame, "anyOf", FailedUnits(r.outputs),
                                        checkpoint, r.output)))
  IN after(ApplySubschemas(context, SchemaFrames(frame, node), 1, TRUE,
                           KeywordOutput(frame), Start(trace)))

oneOfKeyword_validate(context, frame, parent, base, trace) ==
  LET node == NodeAt(context.root, frame.at)
      checkpoint == saveCheckpoint(KeywordOutput(frame))
      after(r) ==
        IF Cardinality({k \in 1..Len(r.outputs) : r.outputs[k].valid}) # 1
        THEN Done(r, attachError(r.output,
                       <<"not valid against exactly one subschema">>))
        ELSE Result(restoreCheckpoint(r.output, checkpoint), r.thrown,
                    Append(r.trace,
                           RestoreEvent(frame, "oneOf", FailedUnits(r.outputs),
                                        checkpoint, r.output)))
  IN after(ApplySubschemas(context, SchemaFrames(frame, node), 1, TRUE,
                           KeywordOutput(frame), Start(trace)))

notKeyword_validate(context, frame, parent, base, trace) ==
  LET checkpoint == saveCheckpoint(KeywordOutput(frame))
      after(r) ==
        IF r.output.valid # FALSE
        THEN Done(r, attachError(r.output, <<"unexpectedly valid">>))
        ELSE Result(restoreCheckpoint(r.output, checkpoint), r.thrown,
                    Append(r.trace,
                           RestoreEvent(frame, "not", AnnotatedUnits(r.output),
                                        checkpoint, r.output)))
  IN after(validateSchemaResource(context, frame, KeywordOutput(frame), trace))

ifKeyword_validate(context, frame, parent, base, trace) ==
  LET checkpoint == saveCheckpoint(KeywordOutput(frame))
      after(r) ==
        Result(restoreCheckpoint(
                 attachAnnotation(r.output, Bool(r.output.valid)),
                 checkpoint),
               r.thrown,
               Append(r.trace,
                      RestoreEvent(frame, "if",
                        IF r.output.valid THEN {}
                        ELSE AnnotatedUnits(r.output),
                        checkpoint,
                        attachAnnotation(r.output, Bool(r.output.valid)))))
  IN after(validateSchemaResource(context, frame, KeywordOutput(frame), trace))

thenKeyword_validate(context, frame, parent, base, trace) ==
  LET with(found, looked) ==
        IF AnnotationOf(found) = Bool(TRUE)
        THEN validateSchemaResource(context, frame, KeywordOutput(frame),
                                    looked)
        ELSE Result(KeywordOutput(frame), "", looked)
      look(found) ==
        with(found,
             Append(Append(trace, LookupEvent("then", found)),
                    ConditionalEvent(frame, parent, "then",
                                     AnnotationOf(found) = Bool(TRUE))))
  IN look(getChildAnnotation(ParentView(parent, base), parent.pointer, "if"))

elseKeyword_validate(context, frame, parent, base, trace) ==
  LET with(found, looked) ==
        IF AnnotationOf(found) = Bool(FALSE)
        THEN validateSchemaResource(context, frame, KeywordOutput(frame),
                                    looked)
        ELSE Result(KeywordOutput(frame), "", looked)
      look(found) ==
        with(found,
             Append(Append(trace, LookupEvent("else", found)),
                    ConditionalEvent(frame, parent, "else",
                                     AnnotationOf(found) = Bool(FALSE))))
  IN look(getChildAnnotation(ParentView(parent, base), parent.pointer, "if"))

dependentSchemasKeyword_validate(context, frame, parent, base, trace) ==
  LET node == NodeAt(context.root, frame.at)
      instance == frame.instance
      output == KeywordOutput(frame)
      after(present, r) ==
        Done(r, IF ~AllValid(r.outputs)
                THEN attachError(r.output,
                       <<"not valid against dependent subschemas">>
                       \o Pick(present, Invalid(r.outputs)))
                ELSE r.output)
      apply(present) ==
        after(present,
              ApplySubschemas(context,
                [k \in 1..Len(present) |->
                   SubFrame(frame, <<present[k]>>, <<>>, instance)],
                1, TRUE, output, Start(trace)))
  IN IF ~isObject(instance) THEN Result(output, "", trace)
     ELSE apply(Pick(ObjectKeys(node),
                     [k \in 1..Len(Items(node)) |->
                        Get(instance, ObjectKeys(node)[k]) # Undefined]))

prefixItemsKeyword_validate(context, frame, parent, base, trace) ==
  LET node == NodeAt(context.root, frame.at)
      instance == frame.instance
      output == KeywordOutput(frame)
      elements == Elements(instance)
      commonLength ==
        IF Len(Items(node)) < Len(elements)
        THEN Len(Items(node)) ELSE Len(elements)
      annotate(r, missing) ==
        Done(r, IF AllValid(r.outputs)
                THEN attachAnnotation(missing,
                       IF commonLength = Len(elements)
                       THEN Bool(TRUE) ELSE Num(commonLength))
                ELSE missing)
      after(r) ==
        annotate(r, IF commonLength # Len(Items(node))
                    THEN attachError(r.output,
                           <<"array is missing expected prefix items">>)
                    ELSE r.output)
  IN IF ~isArray(instance) THEN Result(output, "", trace)
     ELSE after(ApplySubschemas(context,
                  [k \in 1..commonLength |->
                     SubFrame(frame, <<IndexToken(k - 1)>>,
                              <<IndexToken(k - 1)>>, elements[k])],
                  1, TRUE, output, Start(trace)))

itemsKeyword_validate(context, frame, parent, base, trace) ==
  LET instance == frame.instance
      output == KeywordOutput(frame)
      elements == Elements(instance)
      after(startIndex, r) ==
        Done(r, IF ~AllValid(r.outputs)
                THEN attachError(r.output, <<"not valid against all items">>)
                ELSE IF startIndex < Len(elements)
                THEN attachAnnotation(r.output, Bool(TRUE))
                ELSE r.output)
      apply(found, startIndex) ==
        after(startIndex,
              ApplySubschemas(context,
                ItemFrames(frame, [k \in 1..(Len(elements) - startIndex) |->
                                     startIndex + k - 1]),
                1, TRUE, output,
                Start(Append(trace, LookupEvent("items", found)))))
      from(found, prefixItemsAnnotation) ==
        apply(found,
              IF prefixItemsAnnotation = Bool(TRUE)
              THEN Len(elements)
              ELSE IF isNumber(prefixItemsAnnotation)
              THEN prefixItemsAnnotation[2]
              ELSE 0)
      look(found) == from(found, AnnotationOf(found))
  IN IF ~isArray(instance) THEN Result(output, "", trace)
     ELSE look(getChildAnnotation(ParentView(parent, base), parent.pointer,
                                  "prefixItems"))

containsKeyword_validate(context, frame, parent, base, trace) ==
  LET instance == frame.instance
      output == KeywordOutput(frame)
      elements == Elements(instance)
      checkpoint == saveCheckpoint(output)
      parentNode == NodeAt(context.root, parent.at)
      minContains ==
        IF isObject(parentNode) /\ isNumber(Get(parentNode, "minContains"))
        THEN Get(parentNode, "minContains")[2] ELSE 1
      annotate(r, contained) ==
        IF contained = {} /\ minContains # 0
        THEN Done(r, attachError(r.output, <<"does not contain item">>))
        ELSE Result(attachAnnotation(
                      restoreCheckpoint(r.output, checkpoint),
                      IF AllValid(r.outputs) THEN Bool(TRUE)
                      ELSE Arr([k \in 1..Cardinality(contained) |->
                                  Num(Ascending(contained)[k] - 1)])),
                    r.thrown,
                    Append(r.trace,
                           RestoreEvent(frame, "contains", FailedUnits(r.outputs),
                                        checkpoint, r.output)))
      after(r) ==
        annotate(r, {k \in 1..Len(r.outputs) : r.outputs[k].valid})
  IN IF ~isArray(instance) THEN Result(output, "", trace)
     ELSE after(ApplySubschemas(context,
                  ItemFrames(frame, [k \in 1..Len(elements) |-> k - 1]),
                  1, TRUE, output, Start(trace)))

maxContainsKeyword_validate(context, frame, parent, base, trace) ==
  LET node == NodeAt(context.root, frame.at)
      instance == frame.instance
      output == KeywordOutput(frame)
      compare(contained, count, looked) ==
        IF (isArray(contained) \/ contained = Bool(TRUE)) /\ count > node[2]
        THEN Result(attachError(output, <<"more contained items">>),
                    "", looked)
        ELSE Result(output, "", looked)
      with(found, contained) ==
        compare(contained,
                IF isArray(contained) THEN Len(Items(contained))
                ELSE Len(Elements(instance)),
                Append(trace, LookupEvent("maxContains", found)))
      look(found) == with(found, AnnotationOf(found))
  IN IF ~isArray(instance) THEN Result(output, "", trace)
     ELSE look(getChildAnnotation(ParentView(parent, base), parent.pointer,
                                  "contains"))

minContainsKeyword_validate(context, frame, parent, base, trace) ==
  LET node == NodeAt(context.root, frame.at)
      instance == frame.instance
      output == KeywordOutput(frame)
      compare(contained, count, looked) ==
        IF (isArray(contained) \/ contained = Bool(TRUE)) /\ count < node[2]
        THEN Result(attachError(output, <<"fewer contained items">>),
                    "", looked)
        ELSE Result(output, "", looked)
      with(found, contained) ==
        compare(contained,
                IF isArray(contained) THEN Len(Items(contained))
                ELSE Len(Elements(instance)),
                Append(trace, LookupEvent("minContains", found)))
      look(found) == with(found, AnnotationOf(found))
  IN IF ~isArray(instance) THEN Result(output, "", trace)
     ELSE look(getChildAnnotation(ParentView(parent, base), parent.pointer,
                                  "contains"))

propertiesKeyword_validate(context, frame, parent, base, trace) ==
  LET node == NodeAt(context.root, frame.at)
      instance == frame.instance
      output == KeywordOutput(frame)
      members == Members(instance)
      after(applied, r) ==
        Done(r, IF ~AllValid(r.outputs)
                THEN attachError(r.output,
                       <<"invalid properties">>
                       \o Pick(applied, Invalid(r.outputs)))
                ELSE attachAnnotation(r.output,
                       Arr([k \in 1..Len(applied) |-> Str(applied[k])])))
      apply(applied) ==
        after(applied,
              ApplySubschemas(context,
                [k \in 1..Len(applied) |->
                   SubFrame(frame, <<applied[k]>>, <<applied[k]>>,
                            Get(instance, applied[k]))],
                1, TRUE, output, Start(trace)))
  IN IF ~isObject(instance) THEN Result(output, "", trace)
     ELSE apply(Names(instance, [k \in 1..Len(members) |->
                                   Get(node, members[k][1]) # Undefined]))

additionalPropertiesKeyword_validate(context, frame, parent, base, trace) ==
  LET instance == frame.instance
      output == KeywordOutput(frame)
      members == Members(instance)
      view == ParentView(parent, base)
      \* The names in the annotations that properties and patternProperties
      \* of the schema object have emitted, found by the keyword or not.
      produced ==
        Listed(AnnotationOf(getChildAnnotation(<<base>>, parent.pointer,
                                               "properties")))
        \cup Listed(AnnotationOf(getChildAnnotation(<<base>>, parent.pointer,
                                                    "patternProperties")))
      finish(applied, r, attached) ==
        Result(attached, r.thrown,
               Append(r.trace,
                      AdditionalEvent(frame, produced, applied, attached)))
      after(applied, r) ==
        finish(applied, r,
               IF ~AllValid(r.outputs)
               THEN attachError(r.output,
                      <<"invalid additional properties">>
                      \o Pick(applied, Invalid(r.outputs)))
               ELSE attachAnnotation(r.output,
                      Arr([k \in 1..Len(applied) |-> Str(applied[k])])))
      apply(found, applied) ==
        after(applied,
              ApplySubschemas(context, MemberFrames(frame, applied),
                1, FALSE, output,
                Start(Append(trace,
                             LookupEvent("additionalProperties", found)))))
      select(found, propertyNames) ==
        apply(found,
              Names(instance, [k \in 1..Len(members) |->
                                 members[k][1] \notin propertyNames]))
      look(found, foundPattern) ==
        select(found \o foundPattern,
               Listed(AnnotationOf(found))
               \cup Listed(AnnotationOf(foundPattern)))
  IN IF ~isObject(instance) THEN Result(output, "", trace)
     ELSE look(getChildAnnotation(view, parent.pointer, "properties"),
               getChildAnnotation(view, parent.pointer, "patternProperties"))

unevaluatedItemsKeyword_validate(context, frame, parent, base, trace) ==
  LET instance == frame.instance
      output == KeywordOutput(frame)
      elements == Elements(instance)
      view == ParentView(parent, base)
      after(r) == Done(r, attachAnnotation(r.output, Bool(TRUE)))
      apply(looked, applied) ==
        after(ApplySubschemas(context, ItemFrames(frame, applied),
                1, TRUE, output,
                Start(Append(looked,
                        [kind |-> "unevaluated",
                         keyword |-> "unevaluatedItems",
                         applied |-> Range(applied),
                         evaluated |->
                           EvaluatedItems(parent, base, Len(elements))]))))
      select(looked, startIndex, contained) ==
        apply(looked,
              Ascending({k \in startIndex..(Len(elements) - 1) :
                           k \notin contained}))
      from(looked, values, numbers) ==
        IF Bool(TRUE) \in values THEN Result(output, "", looked)
        ELSE select(looked,
                    IF numbers = {} THEN 0
                    ELSE CHOOSE n \in numbers : \A m \in numbers : m <= n,
                    UNION {Listed(v) : v \in values})
      with(looked, values) ==
        from(looked, values, {v[2] : v \in {w \in values : isNumber(w)}})
      look(annotations) ==
        with(Append(trace, LookupEvent("unevaluatedItems", annotations)),
             {annotations[k].annotation : k \in 1..Len(annotations)})
  IN IF ~isArray(instance) THEN Result(output, "", trace)
     ELSE look(getAnnotations(view, "prefixItems")
               \o getAnnotations(view, "items")
               \o getAnnotations(view, "contains")
               \o getAnnotations(view, "unevaluatedItems"))

unevaluatedPropertiesKeyword_validate(context, frame, parent, base, trace) ==
  LET instance == frame.instance
      output == KeywordOutput(frame)
      members == Members(instance)
      view == ParentView(parent, base)
      after(applied, r) ==
        Done(r, attachAnnotation(r.output,
                  Arr([k \in 1..Len(applied) |-> Str(applied[k])])))
      apply(annotations, applied) ==
        after(applied,
              ApplySubschemas(context, MemberFrames(frame, applied),
                1, TRUE, output,
                Start(Append(Append(trace,
                               LookupEvent("unevaluatedProperties",
                                           annotations)),
                        [kind |-> "unevaluated",
                         keyword |-> "unevaluatedProperties",
                         applied |-> Range(applied),
                         evaluated |-> EvaluatedProperties(parent, base)]))))
      select(annotations, propertyNames) ==
        apply(annotations,
              Names(instance, [k \in 1..Len(members) |->
                                 members[k][1] \notin propertyNames]))
      look(annotations) ==
        select(annotations,
               UNION {Listed(annotations[k].annotation) :
                        k \in 1..Len(annotations)})
  IN IF ~isObject(instance) THEN Result(output, "", trace)
     ELSE look(getAnnotations(view, "properties")
               \o getAnnotations(view, "patternProperties")
               \o getAnnotations(view, "additionalProperties")
               \o getAnnotations(view, "unevaluatedProperties"))

\* The nested frame of $ref and $dynamicRef gets the resolved node and the
\* instance, and neither a nodeKey nor an output of its own.
refKeyword_validate(context, frame, parent, base, trace) ==
  LET output == KeywordOutput(frame)
      with(reference) ==
        IF reference = <<>>
        THEN Result(attachError(output, <<"unknown schema reference">>),
                    "", trace)
        ELSE IF reference[1].target = <<>>
                \/ ~isObject(NodeAt(context.root, reference[1].target[1]))
        THEN Result(attachError(output, <<"unresolved schema reference">>),
                    "", trace)
        ELSE validateSchemaResource(context,
               [frame EXCEPT !.at = reference[1].target[1], !.own = FALSE],
               output, trace)
  IN with(getReference(context, parent.at, "$ref"))

dynamicRefKeyword_validate(context, frame, parent, base, trace) ==
  LET node == NodeAt(context.root, frame.at)
      output == KeywordOutput(frame)
      uri == parseUriReference(node[2])
      enter(static, resolved) ==
        validateSchemaResource(context,
          [frame EXCEPT !.at = resolved, !.own = FALSE],
          output,
          Append(trace,
                 [kind |-> "dynamicRef",
                  hash |-> uri.hash,
                  anchor |-> uri.fragment,
                  scope |-> frame.scope,
                  static |-> static,
                  resolved |-> resolved]))
      resolve(static) ==
        enter(static,
              IF uri.hash
              THEN DynamicTarget(context.root, frame.scope, uri.fragment,
                                 Len(frame.scope), static)
              ELSE static)
      with(reference) ==
        IF reference = <<>>
        THEN Result(attachError(output, <<"unknown schema reference">>),
                    "", trace)
        ELSE IF reference[1].target = <<>>
                \/ ~isObject(NodeAt(context.root, reference[1].target[1]))
        THEN Result(attachError(output, <<"unresolved schema reference">>),
                    "", trace)
        ELSE resolve(reference[1].target[1])
  IN with(getReference(context, parent.at, "$dynamicRef"))

\* patternKeyword.validate.  The patterns of the model are literals, and a
\* literal matches the strings of the model it is equal to.  The trace
\* records the patterns the run has put into the cache.
patternKeyword_validate(context, frame, parent, base, trace) ==
  LET node == NodeAt(context.root, frame.at)
      instance == frame.instance
      output == KeywordOutput(frame)
      cached(regex) ==
        IF regex.set
        THEN Append(trace, [kind |-> "cached", pattern |-> regex.source])
        ELSE trace
      test(regex) ==
        IF regex.thrown # "" THEN Result(output, regex.thrown, trace)
        ELSE IF regex.source # instance[2]
        THEN Result(attachError(output, <<"does not match pattern", node[2]>>),
                    "", cached(regex))
        ELSE Result(output, "", cached(regex))
  IN IF ~isString(instance) THEN Result(output, "", trace)
     ELSE test(cachePattern(context, node[2]))

\* The names resource.dialect.formats holds a format for; context.formats
\* is left undefined.
DialectFormats == {"email"}

\* Format.prototype.validate with parse = parseEmail: a string without "@",
\* as the strings of the model are, is no email address.
Format_validate(output, frame, trace) ==
  IF ~isString(frame.instance) THEN Result(output, "", trace)
  ELSE Result(attachError(output, <<"Email address must contain exactly one @ character">>),
              "", trace)

\* A variant of formatAnnotationKeyword_validate that rejects an unknown
\* format in every mode that validates formats.
formatAnnotationKeyword_validateAll(context, frame, parent, base, trace) ==
  LET node == NodeAt(context.root, frame.at)
      output == attachAnnotation(KeywordOutput(frame), node)
  IN IF context.validation \in {"undefined", "false"}
     THEN Result(output, "", trace)
     ELSE IF node[2] \notin DialectFormats
     THEN Result(attachError(output, <<"Unknown format", node[2]>>), "", trace)
     ELSE Format_validate(output, frame, trace)

\* formatAnnotationKeyword.validate
formatAnnotationKeyword_validate(context, frame, parent, base, trace) ==
  LET node == NodeAt(context.root, frame.at)
      output == attachAnnotation(KeywordOutput(frame), node)
  IN IF context.validation \in {"undefined", "false"}
     THEN Result(output, "", trace)
     ELSE IF ~isObject(NodeAt(context.root, parent.at))
             \/ ~isSchemaResource(context, parent.at)
     THEN Result(output, "Unknown parent schema", trace)
     ELSE IF node[2] \notin DialectFormats /\ context.validation = "strict"
     THEN Result(attachError(output, <<"Unknown format", node[2]>>), "", trace)
     ELSE IF node[2] \in DialectFormats
     THEN Format_validate(output, frame, trace)
     ELSE Result(output, "", trace)

\* Keyword.prototype.validate: a keyword without a validate of its own.
Keyword_validate(context, frame, parent, base, trace) ==
  Result(KeywordOutput(frame), "", trace)

\* AnnotationKeyword.prototype.validate, which unknownKeyword(key) takes:
\* the value of the keyword is its annotation.
AnnotationKeyword_validate(context, frame, parent, base, trace) ==
  Result(attachAnnotation(KeywordOutput(frame),
                          NodeAt(context.root, frame.at)), "", trace)

\* keyword.validate(context) of the keyword the dialect holds for `key`.
KeywordValidate(context, key, frame, parent, base, trace) ==
  CASE key = "type" -> typeKeyword_validate(context, frame, parent, base, trace)
    [] key = "required" ->
         requiredKeyword_validate(context, frame, parent, base, trace)
    [] key = "allOf" -> allOfKeyword_validate(context, frame, parent, base, trace)
    [] key = "anyOf" -> anyOfKeyword_validate(context, frame, parent, base, trace)
    [] key = "oneOf" -> oneOfKeyword_validate(context, frame, parent, base, trace)
    [] key = "not" -> notKeyword_validate(context, frame, parent, base, trace)
    [] key = "if" -> ifKeyword_validate(context, frame, parent, base, trace)
    [] key = "then" -> thenKeyword_validate(context, frame, parent, base, trace)
    [] key = "else" -> elseKeyword_validate(context, frame, parent, base, trace)
    [] key = "dependentSchemas" ->
         dependentSchemasKeyword_validate(context, frame, parent, base, trace)
    [] key = "prefixItems" ->
         prefixItemsKeyword_validate(context, frame, parent, base, trace)
    [] key = "items" -> itemsKeyword_validate(context, frame, parent, base, trace)
    [] key = "contains" ->
         containsKeyword_validate(context, frame, parent, base, trace)
    [] key = "maxContains" ->
         maxContainsKeyword_validate(context, frame, parent, base, trace)
    [] key = "minContains" ->
         minContainsKeyword_validate(context, frame, parent, base, trace)
    [] key = "properties" ->
         propertiesKeyword_validate(context, frame, parent, base, trace)
    [] key = "additionalProperties" ->
         additionalPropertiesKeyword_validate(context, frame, parent, base, trace)
    [] key = "unevaluatedItems" ->
         unevaluatedItemsKeyword_validate(context, frame, parent, base, trace)
    [] key = "unevaluatedProperties" ->
         unevaluatedPropertiesKeyword_validate(context, frame, parent, base,
                                               trace)
    [] key = "pattern" ->
         patternKeyword_validate(context, frame, parent, base, trace)
    [] key = "format" ->
         formatAnnotationKeyword_validate(context, frame, parent, base, trace)
    [] key = "$ref" -> refKeyword_validate(context, frame, parent, base, trace)
    [] key = "$dynamicRef" ->
         dynamicRefKeyword_validate(context, frame, parent, base, trace)
    [] key \in {"$schema", "$id", "$anchor", "$dynamicAnchor", "$defs",
                "$comment"} ->
         Keyword_validate(context, frame, parent, base, trace)
    [] OTHER -> AnnotationKeyword_validate(context, frame, parent, base, trace)

\* for (const keyword of resource.keys) nestFrame(... keyword.validate;
\* emitOutput).  `frame` is the schema frame and `output` the unit its
\* keywords emit to.
ValidateKeywords(context, frame, keys, i, output, trace) ==
  LET next(keywordFrame, r) ==
        IF r.thrown # "" THEN Result(output, r.thrown, r.trace)
        ELSE ValidateKeywords(context, frame, keys, i + 1,
                              emitOutput(output, r.output),
                              IF r.output.error # NoError
                              THEN Append(r.trace,
                                          ErrorEvent(keywordFrame, keys[i]))
                              ELSE r.trace)
      enter(keywordFrame) ==
        next(keywordFrame,
             KeywordValidate(context, keys[i], keywordFrame, frame, output,
                             trace))
  IN IF i > Len(keys) THEN Result(output, "", trace)
     ELSE enter([at |-> Append(frame.at, keys[i]),
                 instance |-> frame.instance,
                 pointer |-> Append(frame.pointer, keys[i]),
                 instanceLocation |-> frame.instanceLocation,
                 scope |-> frame.scope,
                 depth |-> frame.depth,
                 own |-> TRUE])

validateSchemaResource(context, frame, output, trace) ==
  LET node == NodeAt(context.root, frame.at)
      never(rejected) ==
        Result(rejected, "",
               Append(trace, BooleanEvent(frame, FALSE, rejected)))
  IN IF frame.depth >= MaxDepth THEN Result(output, "RangeError", trace)
     ELSE IF node = Bool(TRUE)
     THEN Result(output, "", Append(trace, BooleanEvent(frame, TRUE, output)))
     ELSE IF node = Bool(FALSE)
     THEN never(IF frame.own THEN attachError(output, <<"never valid">>)
                ELSE output)
     ELSE IF ~isObject(node) THEN Result(output, "ProcessingError", trace)
     ELSE IF ~isSchemaResource(context, frame.at)
     THEN Result(output, "ProcessingError", trace)
     ELSE ValidateKeywords(context,
            [frame EXCEPT !.scope = Append(@, frame.at), !.depth = @ + 1],
            getResource(context, frame.at).keys, 1, output, trace)

\* Schema.validate(instance), for the schema whose node is the root of the
\* document of the context.
validate(context, instance) ==
  validateSchemaResource(context,
    [at |-> <<>>, instance |-> instance, pointer |-> <<>>,
     instanceLocation |-> <<>>, scope |-> <<>>, depth |-> 0, own |-> TRUE],
    initOutput(<<>>, <<>>), <<>>)
(***************************************************************************)
(* The schemas and instances the engine is run on.                         *)
(***************************************************************************)
TrueSchema == Bool(TRUE)

FalseSchema == Bool(FALSE)

NumberSchema == Obj(<< <<"type", Str("number")>> >>)

\* {"properties": {"a": true}}
PropertySchema == Obj(<< <<"properties", Obj(<< <<"a", TrueSchema>> >>)>> >>)

\* {"properties": {"a": true}, "required": ["b"]}
PropertyRequiredSchema ==
  Obj(<< <<"properties", Obj(<< <<"a", TrueSchema>> >>)>>,
         <<"required", Arr(<<Str("b")>>)>> >>)

\* {"$ref": "#"}
SelfReference == Obj(<< <<"$ref", Str("#")>> >>)

\* The <<key, value>> members generated schema objects are made of.
KeywordEntries ==
  {<<"type", Str("number")>>,
   <<"required", Arr(<<Str("b")>>)>>,
   <<"properties", Obj(<< <<"a", TrueSchema>> >>)>>,
   <<"properties", Obj(<< <<"a", NumberSchema>> >>)>>,
   <<"properties", Obj(<< <<"a", SelfReference>> >>)>>,
   <<"additionalProperties", FalseSchema>>,
   <<"additionalProperties", NumberSchema>>,
   <<"unevaluatedProperties", FalseSchema>>,
   <<"prefixItems", Arr(<<NumberSchema>>)>>,
   <<"items", FalseSchema>>,
   <<"items", NumberSchema>>,
   <<"contains", NumberSchema>>,
   <<"minContains", Num(0)>>,
   <<"maxContains", Num(1)>>,
   <<"unevaluatedItems", FalseSchema>>,
   <<"if", PropertySchema>>,
   <<"if", PropertyRequiredSchema>>,
   <<"then", FalseSchema>>,
   <<"else", FalseSchema>>,
   <<"not", PropertyRequiredSchema>>,
   <<"not", NumberSchema>>,
   <<"allOf", Arr(<<PropertySchema>>)>>,
   <<"anyOf", Arr(<<PropertyRequiredSchema, TrueSchema>>)>>,
   <<"oneOf", Arr(<<PropertyRequiredSchema, NumberSchema>>)>>,
   <<"dependentSchemas", Obj(<< <<"a", PropertySchema>> >>)>>,
   <<"$ref", Str("#")>>,
   <<"pattern", Str("s")>>,
   <<"pattern", Str("t")>>,
   <<"pattern", Str("(")>>,
   <<"format", Str("email")>>,
   <<"format", Str("x-unknown")>>,
   <<"x-note", Str("v")>>,
   <<"toString", Str("v")>>}

\* Members whose value the parse of their keyword rejects.
MalformedEntries ==
  {<<"allOf", Arr(<<>>)>>,
   <<"not", Num(5)>>,
   <<"properties", Obj(<< <<"a", Obj(<< <<"allOf", Arr(<<>>)>> >>)>> >>)>>,
   <<"$schema", Str(UnknownDialect)>>}

\* The member lists of at most n entries with distinct keys.
RECURSIVE EntryLists(_, _)
EntryLists(entries, n) ==
  IF n = 0 THEN {<<>>}
  ELSE LET P == EntryLists(entries, n - 1)
       IN P \cup {Append(l, e) : l \in {m \in P : Len(m) = n - 1},
                                 e \in entries}

DistinctKeys(members) ==
  \A i, j \in 1..Len(members) : i # j => members[i][1] # members[j][1]

GeneratedSchemas ==
  {Obj(l) : l \in {m \in EntryLists(KeywordEntries, MaxKeys) : DistinctKeys(m)}}

\* {"$ref": "#/$defs/X", "$defs": {"X": S}}
RefTo(S) ==
  Obj(<< <<"$ref", Str("#/$defs/X")>>,
         <<"$defs", Obj(<< <<"X", S>> >>)>> >>)

ReferencingSchemas == {RefTo(S) : S \in GeneratedSchemas \cup {TrueSchema}}

\* A malformed member, alone or next to one well-formed member.
MalformedSchemas ==
  {Obj(<<e>>) : e \in MalformedEntries}
  \cup {Obj(<<p[1], p[2]>>) :
          p \in {q \in MalformedEntries \X KeywordEntries : q[1][1] # q[2][1]}}
  \cup {Obj(<<p[2], p[1]>>) :
          p \in {q \in MalformedEntries \X KeywordEntries : q[1][1] # q[2][1]}}

\* Two resources: "urn:strict" at the root refers to "urn:tree" in its
\* $defs, whose property "a" is a $dynamicRef to "#node".  The root declares
\* $dynamicAnchor "node" or not; the tree declares it as $dynamicAnchor or
\* as $anchor; the root may carry one more keyword.
TreeSchema(anchorKey) ==
  Obj(<< <<"$id", Str("urn:tree")>>,
         <<anchorKey, Str("node")>>,
         <<"properties",
           Obj(<< <<"a", Obj(<< <<"$dynamicRef", Str("#node")>> >>)>> >>)>> >>)

DynamicSchemas ==
  {Obj(<< <<"$id", Str("urn:strict")>> >> \o anchor
       \o << <<"$ref", Str("urn:tree")>> >> \o extra
       \o << <<"$defs", Obj(<< <<"tree", TreeSchema(anchorKey)>> >>)>> >>) :
     anchor \in {<<>>, << <<"$dynamicAnchor", Str("node")>> >>},
     extra \in {<<>>, << <<"required", Arr(<<Str("b")>>)>> >>,
                << <<"unevaluatedProperties", FalseSchema>> >>},
     anchorKey \in {"$anchor", "$dynamicAnchor"}}

Schemas ==
  {TrueSchema, FalseSchema} \cup GeneratedSchemas \cup ReferencingSchemas
  \cup MalformedSchemas \cup DynamicSchemas

Scalars == {Num(1), Str("s")}

RECURSIVE ScalarLists(_)
ScalarLists(n) ==
  IF n = 0 THEN {<<>>}
  ELSE LET P == ScalarLists(n - 1)
       IN P \cup {Append(l, s) : l \in {m \in P : Len(m) = n - 1}, s \in Scalars}

Instances ==
  Scalars
  \cup {Arr(l) : l \in ScalarLists(MaxItems)}
  \cup {Obj(a \o b) :
          a \in {<<>>} \cup {<< <<"a", v>> >> :
                   v \in Scalars \cup {Obj(<<>>)}},
          b \in {<<>>, << <<"b", Num(1)>> >>}}

(***************************************************************************)
(* The engine as a machine: parseSchema on a context, then Schema.validate *)
(* on the schema handle the last parse returned.                           *)
(***************************************************************************)
\* The contexts parseSchema is called on: every schema without options, and
\* the schemas with a format keyword, at the root or in $defs, under every
\* value of options.validation.
Contexts ==
  LET hasFormat(schema) ==
        \/ isObject(schema) /\ HasKey(schema, "format")
        \/ /\ isObject(schema) /\ HasKey(schema, "$defs")
           /\ isObject(Get(Get(schema, "$defs"), "X"))
           /\ HasKey(Get(Get(schema, "$defs"), "X"), "format")
  IN {createContext(S) : S \in Schemas}
     \cup {initSchemaContext(createContext(S), mode) :
             S \in {T \in Schemas : hasFormat(T)},
             mode \in {"undefined", "false", "true", "strict"}}

IdleContext == createContext(Undefined)

NoRun == Result(initOutput(<<>>, <<>>), "idle", <<>>)

EngineInit ==
  /\ ctx \in Contexts
  /\ reported = <<>>
  /\ inst = Undefined
  /\ run = NoRun
  /\ keywords = <<>>
  /\ input = <<>>
  /\ iterations = 0
  /\ changed = FALSE
  /\ sortState = "idle"

\* await parseSchema(node, context) that returns a Schema.
ParseSchema ==
  /\ Len(reported) < MaxParses
  /\ run = NoRun
  /\ \E parsed \in {parseSchema(ctx)} :
       /\ parsed.error = ""
       /\ ctx' = parsed
       /\ reported' = Append(reported, "")
  /\ UNCHANGED <<inst, run>>
  /\ UNCHANGED sortVars

\* await parseSchema(node, context) that rejects.
ParseSchemaFails ==
  /\ Len(reported) < MaxParses
  /\ run = NoRun
  /\ \E parsed \in {parseSchema(ctx)} :
       /\ parsed.error # ""
       /\ ctx' = parsed
       /\ reported' = Append(reported, parsed.error)
  /\ UNCHANGED <<inst, run>>
  /\ UNCHANGED sortVars

\* schema.validate(instance) on the handle of the last parse: a first call
\* on any instance, and further calls, one after another, on a string and a
\* number.  The patterns the run has compiled stay in the cache of the
\* context.
Validate ==
  LET repeated == {Str("s"), Num(1)}
  IN /\ run = NoRun \/ inst \in repeated
     /\ Len(reported) > 0
     /\ reported[Len(reported)] = ""
     /\ \E i \in IF run = NoRun THEN Instances ELSE repeated :
          \E r \in {validate(ctx, i)} :
            /\ inst' = i
            /\ run' = r
            /\ ctx' = [ctx EXCEPT !.patternCache =
                         @ \cup {r.trace[k].pattern :
                                   k \in {j \in 1..Len(r.trace) :
                                            r.trace[j].kind = "cached"}}]
     /\ UNCHANGED reported
     /\ UNCHANGED sortVars

EngineNext == ParseSchema \/ ParseSchemaFails \/ Validate

EngineSpec == EngineInit /\ [][EngineNext]_vars
(***************************************************************************)
(* The keyword lists the sort is started on: n keywords with distinct keys *)
(* (keys are compared by equality only, so position i holds KeyNames[i]),  *)
(* and up to MaxEdges entries over the present keys, one absent key and    *)
(* the virtual names; and lists of MaxWide keywords with up to             *)
(* MaxWideEdges entries.                                                   *)
(***************************************************************************)
AbsentKey == "nil"

SortVirtualNames == {"@V"}

EdgeNames(n) == {KeyNames[i] : i \in 1..n} \cup {AbsentKey} \cup SortVirtualNames

BareList(n) ==
  [i \in 1..n |-> [key |-> KeyNames[i], dependencies |-> <<>>, dependents |-> <<>>]]

AddDependency(kws, i, name) ==
  IF Includes(kws[i].dependencies, name) THEN kws
  ELSE [kws EXCEPT ![i].dependencies = Append(@, name)]

AddDependent(kws, i, name) ==
  IF Includes(kws[i].dependents, name) THEN kws
  ELSE [kws EXCEPT ![i].dependents = Append(@, name)]

RECURSIVE KeywordLists(_, _)
KeywordLists(n, edges) ==
  IF edges = 0 THEN {BareList(n)}
  ELSE LET P == KeywordLists(n, edges - 1)
       IN P \cup {AddDependency(l, i, name) :
                    l \in P, i \in 1..n, name \in EdgeNames(n)}
            \cup {AddDependent(l, i, name) :
                    l \in P, i \in 1..n, name \in EdgeNames(n)}

SortInputs ==
  UNION {KeywordLists(n, MaxEdges) : n \in 1..MaxKeywords}
    \cup KeywordLists(MaxWide, MaxWideEdges)

(***************************************************************************)
(* sortKeywords as a machine: one action per pass of the while loop.       *)
(***************************************************************************)
SortInit ==
  /\ keywords \in SortInputs
  /\ input = keywords
  /\ iterations = 0
  /\ changed = TRUE
  /\ sortState = "running"
  /\ ctx = IdleContext
  /\ reported = <<>>
  /\ inst = Undefined
  /\ run = NoRun

\* A variant of SortThrow that returns the list as the last pass left it
\* instead of throwing.
SortGiveUp ==
  /\ sortState = "running"
  /\ changed
  /\ iterations >= MaxIterations(keywords)
  /\ sortState' = "returned"
  /\ UNCHANGED <<keywords, iterations, changed, input>>
  /\ UNCHANGED engineVars

\* if (iterations >= maxIterations) throw new ValidationError(...)
SortThrow ==
  /\ sortState = "running"
  /\ changed
  /\ iterations >= MaxIterations(keywords)
  /\ sortState' = "thrown"
  /\ UNCHANGED <<keywords, iterations, changed, input>>
  /\ UNCHANGED engineVars

\* A pass of the loop that shifts one keyword: changed stays true.
SortPass ==
  /\ sortState = "running"
  /\ changed
  /\ iterations < MaxIterations(keywords)
  /\ PassMove(keywords, 1) # NoMove
  /\ keywords' = ApplyMove(keywords, PassMove(keywords, 1))
  /\ iterations' = iterations + 1
  /\ changed' = TRUE
  /\ UNCHANGED <<sortState, input>>
  /\ UNCHANGED engineVars

\* A pass of the loop that shifts nothing: the loop ends and the sort returns.
SortReturn ==
  /\ sortState = "running"
  /\ changed
  /\ iterations < MaxIterations(keywords)
  /\ PassMove(keywords, 1) = NoMove
  /\ iterations' = iterations + 1
  /\ changed' = FALSE
  /\ sortState' = "returned"
  /\ UNCHANGED <<keywords, input>>
  /\ UNCHANGED engineVars

SortNext == SortThrow \/ SortPass \/ SortReturn

SortSpec == SortInit /\ [][SortNext]_vars

(***************************************************************************)
(* Ordering constraints of a keyword list, as the sort contract states     *)
(* them: the keyword at index i must come before the keyword at index j.   *)
(***************************************************************************)
RealBefore(l, i, j) ==
  \/ Includes(l[j].dependencies, l[i].key)
  \/ Includes(l[i].dependents, l[j].key)

VirtualBefore(l, i, j) ==
  \E v \in VirtualNames :
    Includes(l[i].dependents, v) /\ Includes(l[j].dependencies, v)

MustPrecede(l, i, j) == RealBefore(l, i, j) \/ VirtualBefore(l, i, j)

Orders(n) == {f \in [1..n -> 1..n] : \A a, b \in 1..n : a # b => f[a] # f[b]}

\* Some order of the list satisfies every constraint.
Satisfiable(l) ==
  \E f \in Orders(Len(l)) :
    \A i, j \in 1..Len(l) : MustPrecede(l, i, j) => f[i] < f[j]

\* C4: after sortKeywords returns normally, whenever K lists D's key in its
\* dependencies or D lists K's key in its dependents, for two keywords D and
\* K of the list, D is at a lower index than K.
C4_RealOrder ==
  sortState = "returned" =>
    \A d, k \in 1..Len(keywords) :
      (d # k /\ RealBefore(keywords, d, k)) => d < k

C4_Witness ==
  /\ sortState = "returned"
  /\ keywords # input
  /\ \E d, k \in 1..Len(keywords) : d # k /\ RealBefore(keywords, d, k)

\* C5: after sortKeywords returns normally, for every virtual name v, a
\* keyword that lists v in its dependents is at a lower index than any other
\* keyword that lists v in its dependencies.
C5_VirtualOrder ==
  sortState = "returned" =>
    \A a, b \in 1..Len(keywords) :
      (a # b /\ VirtualBefore(keywords, a, b)) => a < b

C5_Witness ==
  /\ sortState = "returned"
  /\ keywords # input
  /\ \E a, b \in 1..Len(keywords) : a # b /\ VirtualBefore(keywords, a, b)

\* C6: a keyword list whose constraints no order satisfies makes
\* sortKeywords raise the cycle error, so the sort never returns on one.
C6_CycleRaises ==
  sortState = "returned" => Satisfiable(input)


\* C20: on a list that sortKeywords has returned normally on, a second call
\* of sortKeywords returns normally and leaves the list as it is.
C20_SortIdempotent ==
  sortState = "returned" =>
    SortKeywords(keywords) = [thrown |-> FALSE, keywords |-> keywords]

\* The first call has moved a keyword before it returned.
C20_Witness ==
  /\ sortState = "returned"
  /\ iterations > 1
  /\ keywords # input

(***************************************************************************)
(* Properties of parsing and validation.                                   *)
(***************************************************************************)
\* A run of Schema.validate that has returned.
Returned(r) == r # NoRun /\ r.thrown = ""

\* Schema.validate(instance) on a fresh context, with the validation mode of
\* ctx, that has parsed `schema`.
FreshRun(schema, instance) ==
  validate(parseSchema(initSchemaContext(createContext(schema),
                                         ctx.validation)), instance)

\* The source objects with the members of `schema` in every order.
KeyOrders(schema) ==
  IF ~isObject(schema) THEN {schema}
  ELSE {Obj([i \in 1..Len(Items(schema)) |-> Items(schema)[f[i]]]) :
          f \in Orders(Len(Items(schema)))}

\* An output unit up to the order of the entries of its lists.
RECURSIVE Unordered(_)
Unordered(output) ==
  [valid |-> output.valid,
   keywordLocation |-> output.keywordLocation,
   instanceLocation |-> output.instanceLocation,
   error |-> IF output.error = NoError THEN {} ELSE Range(output.error),
   annotation |-> output.annotation,
   errors |-> {Unordered(output.errors[i]) : i \in 1..Len(output.errors)},
   annotations |-> {Unordered(output.annotations[i]) :
                      i \in 1..Len(output.annotations)}]

\* The events of one kind in the trace of the run, by position.
Events(kind) == {k \in 1..Len(run.trace) : run.trace[k].kind = kind}

\* The frames of a dynamic scope whose schema declares $dynamicAnchor `anchor`.
Declaring(scope, anchor) ==
  {i \in 1..Len(scope) :
     /\ isObject(NodeAt(ctx.root, scope[i]))
     /\ Get(NodeAt(ctx.root, scope[i]), "$dynamicAnchor") = Str(anchor)}

\* C1: for a schema S that parses and an instance I, validating I against
\* {"$ref": "#/$defs/X", "$defs": {"X": S}} yields the same valid flag as
\* validating I against S directly.
C1_ReferenceTransparency ==
  Returned(run) =>
    \A via \in {FreshRun(RefTo(ctx.root), inst)} :
      via.thrown = "" => via.output.valid = run.output.valid

\* C2: unevaluatedProperties (unevaluatedItems) never applies its sub-schema
\* to a property name (array index) that a keyword of the same schema, or a
\* schema reached from it, has evaluated successfully at the same instance
\* location.
C2_UnevaluatedSoundness ==
  run # NoRun =>
    \A k \in Events("unevaluated") :
      run.trace[k].applied \cap run.trace[k].evaluated = {}

\* C3: for every order of the keys of the source object, parsing and
\* validating gives the same output, up to the order of the entries of the
\* lists of each unit.
C3_KeyOrderIndependence ==
  Returned(run) =>
    \A permuted \in KeyOrders(ctx.root) :
      \A other \in {FreshRun(permuted, inst)} :
        other.thrown = "" => Unordered(other.output) = Unordered(run.output)

C8_ValidateTerminates ==
  run.thrown # "RangeError"

\* C9: when a parse fails, parsing the same node again in the same context
\* reports the same error.
C9_FailedParseRepeats ==
  (Len(reported) = MaxParses /\ reported[1] # "") =>
    \A k \in 2..Len(reported) : reported[k] = reported[1]

\* C10: once a speculative applicator has restored its checkpoint, no later
\* annotation lookup finds an annotation that a failed sub-schema evaluation
\* of that applicator produced.
C10_FailedAnnotationsHidden ==
  run # NoRun =>
    \A i \in Events("restore") :
      \A j \in Events("lookup") :
        i < j => run.trace[i].failed \cap run.trace[j].found = {}

(***************************************************************************)
(* Properties of the output of a run and of single keywords.               *)
(***************************************************************************)
\* The <<keywordLocation, instanceLocation>> of the units that carry an error
\* in the tree of nested errors under `output`, the unit itself included.
RECURSIVE ErrorUnits(_)
ErrorUnits(output) ==
  (IF output.error # NoError
   THEN {<<output.keywordLocation, output.instanceLocation>>} ELSE {})
  \cup UNION {ErrorUnits(output.errors[i]) : i \in 1..Len(output.errors)}

\* The error at position k of the trace was rolled back: a keyword at or
\* above its location restored its checkpoint afterwards.
RolledBack(k) ==
  \E j \in Events("restore") :
    /\ j > k
    /\ StartsWith(run.trace[k].keywordLocation, run.trace[j].keywordLocation)
    /\ StartsWith(run.trace[k].instanceLocation,
                  run.trace[j].instanceLocation)

\* C11: when Schema.validate returns valid = false, every keyword that
\* attached an error which no enclosing applicator rolled back is present,
\* as a unit with its keyword location, in the tree of nested errors under
\* the root unit.
C11_ErrorsReported ==
  (Returned(run) /\ ~run.output.valid) =>
    \A k \in Events("error") :
      ~RolledBack(k) =>
        <<run.trace[k].keywordLocation, run.trace[k].instanceLocation>>
          \in ErrorUnits(run.output)

\* C12: at the root and at every sub-schema position of an applicator, the
\* boolean schema true leaves the output of its frame valid, whatever the
\* instance, and the boolean schema false leaves it invalid; at the root
\* this is the valid flag Schema.validate returns.
C12_BooleanSchemas ==
  run # NoRun =>
    /\ \A k \in Events("boolean") : run.trace[k].valid = run.trace[k].value
    /\ ctx.root = TrueSchema => Returned(run) /\ run.output.valid
    /\ ctx.root = FalseSchema => Returned(run) /\ ~run.output.valid

\* Both boolean schemas were evaluated below the root in one run.
C12_Witness ==
  /\ Returned(run)
  /\ \E k \in Events("boolean") :
       /\ run.trace[k].value
       /\ run.trace[k].keywordLocation # <<>>
  /\ \E k \in Events("boolean") :
       /\ ~run.trace[k].value
       /\ ~run.trace[k].valid
       /\ run.trace[k].keywordLocation # <<>>

\* The keys the draft 2020-12 dialect defines, among those the schemas use.
DefinedKeys ==
  {"type", "required", "allOf", "anyOf", "oneOf", "not", "if", "then",
   "else", "dependentSchemas", "prefixItems", "items", "contains",
   "maxContains", "minContains", "properties", "additionalProperties",
   "unevaluatedItems", "unevaluatedProperties", "$ref", "$dynamicRef",
   "$schema", "$id", "$anchor", "$dynamicAnchor", "$defs", "$comment"}

\* The positions of the members of a schema object whose key the dialect
\* does not define.
UnknownMembers(schema) ==
  IF ~isObject(schema) THEN {}
  ELSE {k \in 1..Len(Items(schema)) : Items(schema)[k][1] \notin DefinedKeys}

\* The schema object without its member at position k.
Without(schema, k) ==
  Obj(Pick(Items(schema), [i \in 1..Len(Items(schema)) |-> i # k]))

Accepts(schema, instance) ==
  \E r \in {FreshRun(schema, instance)} : r.thrown = "" /\ r.output.valid

\* C14: wherever a schema object with then or else is evaluated, then is
\* applied to the instance exactly when the schema object has an if whose
\* sub-schema accepts the instance, and else exactly when it has an if
\* whose sub-schema rejects it.
C14_ConditionalApplied ==
  run # NoRun =>
    \A k \in Events("conditional") :
      \A condition \in {Get(NodeAt(ctx.root, run.trace[k].schema), "if")} :
        run.trace[k].applied
          <=> /\ condition # Undefined
              /\ Accepts(condition, run.trace[k].instance)
                   = (run.trace[k].keyword = "then")

\* Every unit of the tree under `output`, through both lists, itself included.
RECURSIVE Units(_)
Units(output) ==
  {output}
  \cup UNION {Units(output.errors[i]) : i \in 1..Len(output.errors)}
  \cup UNION {Units(output.annotations[i]) : i \in 1..Len(output.annotations)}

\* The units of the run that the keyword `key` of some schema object wrote.
UnitsOf(key) ==
  {u \in Units(run.output) : EndsWith(u.keywordLocation, key)}

\* C15: the unit of the if keyword is valid and carries no error, whatever
\* the outcome of its sub-schema, and its annotation is a boolean; for the
\* if of the root schema object the unit is in the output and the boolean
\* is whether the sub-schema accepts the instance.
C15_IfNeverInvalid ==
  Returned(run) =>
    /\ \A u \in UnitsOf("if") :
         /\ u.valid
         /\ u.error = NoError
         /\ u.errors = <<>>
         /\ isBoolean(u.annotation)
    /\ (isObject(ctx.root) /\ HasKey(ctx.root, "if")) =>
         \E i \in 1..Len(run.output.annotations) :
           /\ run.output.annotations[i].keywordLocation = <<"if">>
           /\ run.output.annotations[i].annotation
                = Bool(Accepts(Get(ctx.root, "if"), inst))

\* The if sub-schema of the root rejected the instance and the run returned.
C15_Witness ==
  /\ Returned(run)
  /\ isObject(ctx.root)
  /\ HasKey(ctx.root, "if")
  /\ \E u \in UnitsOf("if") : u.annotation = Bool(FALSE)

\* C16: wherever a schema object is evaluated, additionalProperties applies
\* its sub-schema to exactly the members of the object instance whose names
\* are not in the annotation that properties or patternProperties of the
\* same schema object produced, and when it succeeds its annotation lists
\* exactly the names it applied the sub-schema to.
C16_AdditionalProperties ==
  run # NoRun =>
    \A k \in Events("additional") :
      /\ run.trace[k].applied = run.trace[k].members \ run.trace[k].produced
      /\ run.trace[k].valid =>
           /\ isArray(run.trace[k].annotation)
           /\ Listed(run.trace[k].annotation) = run.trace[k].applied

\* The positions of the elements that `schema` accepts.
Validating(schema, elements) ==
  {i \in 1..Len(elements) : Accepts(schema, elements[i])}

\* `value` is the list of the members of the set of numbers S, ascending.
IsAscendingList(value, S) ==
  /\ isArray(value)
  /\ Len(Items(value)) = Cardinality(S)
  /\ Listed(value) = S
  /\ \A p, q \in 1..Len(Items(value)) :
       p < q => Items(value)[p][2] < Items(value)[q][2]

\* C17: when contains of the root schema object accepts an array instance,
\* its annotation is true if every item validates against the sub-schema,
\* and otherwise is the ascending list of the indices of the items that do.
C17_ContainsAnnotation ==
  (Returned(run) /\ isArray(inst) /\ HasKey(ctx.root, "contains")) =>
    \A u \in {v \in UnitsOf("contains") :
                v.valid /\ v.keywordLocation = <<"contains">>} :
      \A valid \in {Validating(Get(ctx.root, "contains"), Items(inst))} :
        IF valid = 1..Len(Items(inst)) THEN u.annotation = Bool(TRUE)
        ELSE IsAscendingList(u.annotation, {i - 1 : i \in valid})

\* contains accepted an array of which two items validate and one does not.
C17_Witness ==
  /\ Returned(run)
  /\ isArray(inst)
  /\ HasKey(ctx.root, "contains")
  /\ \E u \in UnitsOf("contains") :
       /\ u.valid
       /\ u.keywordLocation = <<"contains">>
       /\ isArray(u.annotation)
       /\ Len(Items(u.annotation)) = 2

\* C18: when prefixItems of the root schema object succeeds on an array
\* instance, its annotation is true if every item of the instance has a
\* prefix sub-schema, and otherwise is the largest index a prefix sub-schema
\* was applied to, which is the number of prefix sub-schemas less one.
C18_PrefixItemsAnnotation ==
  (Returned(run) /\ isArray(inst) /\ HasKey(ctx.root, "prefixItems")) =>
    \A u \in {v \in UnitsOf("prefixItems") :
                v.valid /\ v.keywordLocation = <<"prefixItems">>} :
      u.annotation =
        IF Len(Items(inst)) <= Len(Items(Get(ctx.root, "prefixItems")))
        THEN Bool(TRUE)
        ELSE Num(Len(Items(Get(ctx.root, "prefixItems"))) - 1)

\* C19: prefixItems of the root schema object accepts an array instance
\* exactly when every element that has a prefix sub-schema at its position
\* validates against it; elements without a sub-schema and sub-schemas
\* without an element require nothing.
C19_PrefixItemsAccepts ==
  (Returned(run) /\ isArray(inst) /\ HasKey(ctx.root, "prefixItems")) =>
    \A prefix \in {Items(Get(ctx.root, "prefixItems"))} :
      (~\E i \in 1..Len(run.output.errors) :
          StartsWith(run.output.errors[i].keywordLocation, <<"prefixItems">>))
      <=> \A i \in 1..Min({Len(prefix), Len(Items(inst))}) :
            Accepts(prefix[i], Items(inst)[i])

(***************************************************************************)
(* Keywords that take part in no ordering constraint.                      *)
(***************************************************************************)
\* The keyword at index i of l is constrained against a keyword of l.
Constrained(l, i) ==
  \E j \in 1..Len(l) : MustPrecede(l, i, j) \/ MustPrecede(l, j, i)

\* The keys of the unconstrained keywords of `of`, in the order they have
\* in l.
FreeKeys(l, of) ==
  LET free == {of[i].key : i \in {k \in 1..Len(of) : ~Constrained(of, k)}}
  IN SelectSeq([k \in 1..Len(l) |-> l[k].key], LAMBDA key : key \in free)

\* C21: after sortKeywords returns normally, the keywords that are in no
\* ordering constraint with a keyword of the list are in the same relative
\* order among themselves as in the input.
C21_FreeOrderKept ==
  sortState = "returned" => FreeKeys(keywords, input) = FreeKeys(input, input)

\* The sort has moved a keyword past two unconstrained ones.
C21_Witness ==
  /\ sortState = "returned"
  /\ keywords # input
  /\ Len(FreeKeys(input, input)) >= 2
  /\ \E a, x, y, b \in 1..Len(input) :
       /\ a < x /\ x < y /\ y < b
       /\ keywords[a].key = input[b].key
       /\ ~Constrained(input, x)
       /\ ~Constrained(input, y)

HasInvalidPattern(schema) ==
  /\ isObject(schema)
  /\ isString(Get(schema, "pattern"))
  /\ Get(schema, "pattern")[2] \in InvalidPatterns

\* C22: validating a string instance against a parsed schema whose pattern
\* is not a valid regular expression does not raise the SyntaxError of the
\* pattern, and the pattern matches nothing: when the validation returns,
\* the string is rejected.
C22_InvalidPatternNeverMatches ==
  (run # NoRun /\ isString(inst) /\ HasInvalidPattern(ctx.root)) =>
    /\ run.thrown # "SyntaxError"
    /\ run.thrown = "" => ~run.output.valid

\* The schema is an object whose format is a name no registry holds.
HasUnknownFormat(schema) ==
  /\ isObject(schema)
  /\ isString(Get(schema, "format"))
  /\ Get(schema, "format")[2] \notin DialectFormats

Attached(output) ==
  LET base == emitOutput(initOutput(<<>>, <<>>), output)
  IN IF base.valid THEN base.annotations[1] ELSE base.errors[1]

\* The unit has one nested error and nothing else of substance.
LoneError(output) ==
  /\ output.error = NoError
  /\ output.annotation = Undefined
  /\ Len(output.errors) = 1
  /\ Len(output.annotations) = 0

\* C24: emitOutput attaches the single nested error of a child in place of
\* the child only when the child has exactly one nested error, no error and
\* no annotation of its own and no nested annotations; every other child
\* that is not empty is attached itself, with its nested errors and
\* annotations.  The children are the units a schema's keywords have built.
C24_HoistOnlyLoneError ==
  (Returned(run) /\ ~IsEmptyOutput(run.output)) =>
    Attached(run.output) =
      IF LoneError(run.output) THEN run.output.errors[1] ELSE run.output

\* unevaluatedItems of the root schema has applied its sub-schema to an index.
AppliedToItems ==
  \E k \in Events("unevaluated") :
    /\ run.trace[k].keyword = "unevaluatedItems"
    /\ run.trace[k].applied # {}

\* C25: the unit of unevaluatedItems carries the annotation true exactly
\* when the keyword has applied its sub-schema to at least one index of the
\* array; when other annotations cover every index it carries none.
C25_UnevaluatedItemsAnnotation ==
  (Returned(run) /\ isArray(inst) /\ HasKey(ctx.root, "unevaluatedItems")) =>
    (AppliedToItems <=>
       \E u \in Units(run.output) :
         /\ u.keywordLocation = <<"unevaluatedItems">>
         /\ u.instanceLocation = <<>>
         /\ u.annotation = Bool(TRUE))

\* C26: after restoreCheckpoint the valid flag, the error and the nested
\* errors of the unit are those saveCheckpoint saved, whatever attachError,
\* attachAnnotation and emitOutput did to the unit in between, and its
\* annotation and its nested annotations are as they were just before the
\* restore.
C26_RestoreFrame ==
  run # NoRun =>
    \A k \in Events("restore") :
      \E e \in {run.trace[k]} :
        /\ e.after.valid = e.saved.valid
        /\ e.after.error = e.saved.error
        /\ e.after.errors = e.saved.errors
        /\ e.after.annotation = e.before.annotation
        /\ e.after.annotations = e.before.annotations

\* A restore has taken nested errors out of a unit that has an annotation
\* of its own and nested annotations.
C26_Witness ==
  /\ Returned(run)
  /\ \E k \in Events("restore") :
       \E e \in {run.trace[k]} :
         /\ ~e.before.valid
         /\ e.before.errors # e.saved.errors
         /\ e.before.annotation # Undefined
         /\ e.before.annotations # <<>>

(***************************************************************************)
(* Parsing again.                                                          *)
(***************************************************************************)
\* The resources of the context that have a dialect and a keyword program.
Initialized(context) ==
  {r \in context.resources : r.dialect # NoDialect /\ r.hasKeys}

\* The calls of keyword.parse the context has seen for the node at `at`.
ParsesOf(context, at) ==
  SelectSeq(context.parses, LAMBDA call : call[1] = at)

\* C27: a parse in a context leaves every node that is already initialized
\* as a schema resource with the same resource, dialect and keyword program,
\* and calls no keyword's parse for that node again.
C27_ResourceStable ==
  [][\A r \in Initialized(ctx) :
       /\ r \in ctx'.resources
       /\ ParsesOf(ctx', r.at) = ParsesOf(ctx, r.at)]_vars

\* A second parse has been made of a schema with initialized sub-schemas.
C27_Witness ==
  /\ Len(reported) = 2
  /\ Cardinality(Initialized(ctx)) > 1
  /\ ctx.parses # <<>>

(***************************************************************************)
(* The output tree.                                                        *)
(***************************************************************************)
\* C29: in the output tree Schema.validate returns, every unit, the root
\* included, is invalid exactly when it has an error message or a nested
\* error.
C29_ValidIffNoError ==
  Returned(run) =>
    \A u \in Units(run.output) :
      ~u.valid <=> (u.error # NoError \/ u.errors # <<>>)

\* A returned tree has an invalid unit with nested errors and a valid unit
\* below a keyword that has restored its checkpoint.
C29_Witness ==
  /\ Returned(run)
  /\ Events("restore") # {}
  /\ \E u \in Units(run.output) : ~u.valid /\ u.errors # <<>>
  /\ \E u \in Units(run.output) : u.valid /\ u.keywordLocation # <<>>

====
